---------------------------- MODULE Spec2Model ----------------------------
(***************************************************************************)
(* Event classification and diff normalisation of the diff-analyser        *)
(* service: webhook_handler.py, diff_parser.py, github_client.py,          *)
(* models.py and the metadata helper of main.py.                           *)
(*                                                                         *)
(* Python values are tagged records: None, int, str (a sequence of         *)
(* one-character strings), dict (a function from keys to values; a key    *)
(* that is missing is simply not in the domain) and list (a sequence).     *)
(***************************************************************************)
EXTENDS Integers, Sequences, FiniteSets, TLC

(* ---------------- bounds ---------------- *)
\* longest list of file records the upstream files endpoint answers with
MaxFiles == 2

(* ---------------- Python values ---------------- *)
PyNone == [t |-> "none"]
PyInt(n) == [t |-> "int", v |-> n]
PyStr(s) == [t |-> "str", v |-> s]
PyDict(f) == [t |-> "dict", v |-> f]
PyList(s) == [t |-> "list", v |-> s]
\* marks a key that the enclosing dict does not have (used to build inputs)
Absent == [t |-> "absent"]
\* the dict holding exactly the keys of record f whose value is not Absent
MkDict(f) == PyDict([k \in {x \in DOMAIN f : f[x].t # "absent"} |-> f[k]])
EmptyDict == PyDict([k \in {} |-> PyNone])

IsDict(x) == x.t = "dict"
\* k in d
has(d, k) == k \in DOMAIN d.v
\* d.get(k, default), for a dict d
get(d, k, default) == IF k \in DOMAIN d.v THEN d.v[k] ELSE default
\* bool(x)
truthy(x) ==
  CASE x.t = "none" -> FALSE
    [] x.t = "int" -> x.v # 0
    [] x.t = "str" -> Len(x.v) # 0
    [] x.t = "dict" -> DOMAIN x.v # {}
    [] x.t = "list" -> Len(x.v) # 0
\* x or y
or(x, y) == IF truthy(x) THEN x ELSE y
\* x == y on values of possibly different types
pyeq(x, y) == x.t = y.t /\ (x.t = "none" \/ x.v = y.v)

(* ---------------- str methods ---------------- *)
UpperLetters == <<"A","B","C","D","E","F","G","H","I","J","K","L","M",
                  "N","O","P","Q","R","S","T","U","V","W","X","Y","Z">>
LowerLetters == <<"a","b","c","d","e","f","g","h","i","j","k","l","m",
                  "n","o","p","q","r","s","t","u","v","w","x","y","z">>
Whitespace == {" ", "\t", "\n", "\r"}
Digits == <<"0","1","2","3","4","5","6","7","8","9">>

lower_char(c) ==
  IF \E i \in DOMAIN UpperLetters : UpperLetters[i] = c
  THEN LowerLetters[CHOOSE i \in DOMAIN UpperLetters : UpperLetters[i] = c]
  ELSE c
\* s.lower()
lower(s) == [i \in 1..Len(s) |-> lower_char(s[i])]

RECURSIVE lstrip(_)
lstrip(s) == IF s # <<>> /\ Head(s) \in Whitespace THEN lstrip(Tail(s)) ELSE s
RECURSIVE rstrip(_)
rstrip(s) ==
  IF s # <<>> /\ s[Len(s)] \in Whitespace THEN rstrip(SubSeq(s, 1, Len(s) - 1)) ELSE s
\* s.strip()
strip(s) == rstrip(lstrip(s))

RECURSIVE nat_str(_)
nat_str(n) == IF n < 10 THEN <<Digits[n + 1]>> ELSE nat_str(n \div 10) \o <<Digits[(n % 10) + 1]>>
\* str(n) for an int
int_str(n) == IF n < 0 THEN <<"-">> \o nat_str(0 - n) ELSE nat_str(n)

(* ---------------- string literals of the source ---------------- *)
S_None == <<"N", "o", "n", "e">>
S_unknown == <<"u", "n", "k", "n", "o", "w", "n">>
S_main == <<"m", "a", "i", "n">>
S_modified == <<"m", "o", "d", "i", "f", "i", "e", "d">>
S_unknown_file == <<"u", "n", "k", "n", "o", "w", "n", "_", "f", "i", "l", "e">>
S_No_title == <<"N", "o", " ", "t", "i", "t", "l", "e">>
S_No_Title == <<"N", "o", " ", "T", "i", "t", "l", "e">>
S_mock_file1 == <<"s", "r", "c", "/", "e", "x", "a", "m", "p", "l", "e", ".", "p", "y">>
S_mock_patch1 == <<"@", "@", " ", "-", "1", ",", "5", " ", "+", "1", ",", "1", "0", " ", "@", "@", "\n", " ", "d", "e", "f", " ", "e", "x", "a", "m", "p", "l", "e", "(", ")", ":", "\n", "-", " ", " ", " ", " ", "p", "a", "s", "s", "\n", "+", " ", " ", " ", " ", "r", "e", "t", "u", "r", "n", " ", "T", "r", "u", "e">>
S_mock_file2 == <<"R", "E", "A", "D", "M", "E", ".", "m", "d">>
S_mock_patch2 == <<"@", "@", " ", "-", "1", ",", "3", " ", "+", "1", ",", "4", " ", "@", "@", "\n", " ", "#", " ", "P", "r", "o", "j", "e", "c", "t", "\n", "+", "U", "p", "d", "a", "t", "e", "d", " ", "d", "o", "c", "u", "m", "e", "n", "t", "a", "t", "i", "o", "n">>
S_error_mock == <<"e", "r", "r", "o", "r", "/", "m", "o", "c", "k", ".", "p", "y">>
S_error_patch == <<"E", "r", "r", "o", "r", " ", "o", "c", "c", "u", "r", "r", "e", "d", " ", "d", "u", "r", "i", "n", "g", " ", "p", "a", "r", "s", "i", "n", "g">>
S_error_commits == <<"E", "r", "r", "o", "r", " ", "p", "a", "r", "s", "i", "n", "g", " ", "c", "o", "m", "m", "i", "t", "s">>
S_changes_in_pr == <<"C", "h", "a", "n", "g", "e", "s", " ", "i", "n", " ", "P", "R", " ">>
S_PR_hash == <<"P", "R", " ", "#">>
S_Mock_PR_hash == <<"M", "o", "c", "k", " ", "P", "R", " ", "#">>
S_mock_body == <<"M", "o", "c", "k", " ", "P", "R", " ", "d", "e", "s", "c", "r", "i", "p", "t", "i", "o", "n", " ", "-", " ", "A", "P", "I", " ", "c", "a", "l", "l", " ", "f", "a", "i", "l", "e", "d">>
S_open == <<"o", "p", "e", "n">>
S_mock_user == <<"m", "o", "c", "k", "-", "u", "s", "e", "r">>
S_feature == <<"f", "e", "a", "t", "u", "r", "e">>
S_feature_branch == <<"f", "e", "a", "t", "u", "r", "e", "-", "b", "r", "a", "n", "c", "h">>
S_default_ts == <<"2", "0", "2", "5", "-", "0", "8", "-", "0", "2", "T", "0", "0", ":", "0", "0", ":", "0", "0", "Z">>
relevant_actions ==
  << <<"o", "p", "e", "n", "e", "d">>,
     <<"s", "y", "n", "c", "h", "r", "o", "n", "i", "z", "e">>,
     <<"r", "e", "o", "p", "e", "n", "e", "d">>,
     <<"r", "e", "a", "d", "y", "_", "f", "o", "r", "_", "r", "e", "v", "i", "e", "w">>,
     <<"e", "d", "i", "t", "e", "d">>,
     <<"r", "e", "v", "i", "e", "w", "_", "r", "e", "q", "u", "e", "s", "t", "e", "d">>,
     <<"a", "s", "s", "i", "g", "n", "e", "d">>,
     <<"u", "n", "a", "s", "s", "i", "g", "n", "e", "d">>,
     <<"l", "a", "b", "e", "l", "e", "d">>,
     <<"u", "n", "l", "a", "b", "e", "l", "e", "d">>,
     <<"c", "l", "o", "s", "e", "d">>,
     <<"c", "o", "n", "v", "e", "r", "t", "e", "d", "_", "t", "o", "_", "d", "r", "a", "f", "t">>,
     <<"a", "u", "t", "o", "_", "m", "e", "r", "g", "e", "_", "e", "n", "a", "b", "l", "e", "d">>,
     <<"a", "u", "t", "o", "_", "m", "e", "r", "g", "e", "_", "d", "i", "s", "a", "b", "l", "e", "d">> >>

\* str(x); containers are not among the modelled arguments of str
str(x) ==
  CASE x.t = "str" -> x.v
    [] x.t = "int" -> int_str(x.v)
    [] x.t = "none" -> S_None

\* x in seq
in_list(x, seq) == \E i \in DOMAIN seq : seq[i] = x


(* ---------------- webhook_handler.py: the classifier ---------------- *)
\* outcome of a block of code: a returned value, or a raised exception
Return(v) == [raised |-> FALSE, value |-> v]
Raise(e) == [raised |-> TRUE, exc |-> e]

\* no_pull_request_case with "or" in place of "and"
no_pull_request_case_either_key(payload) ==
  IF has(payload, "number") \/ has(payload, "repository") THEN
    IF ~IsDict(get(payload, "repository", EmptyDict)) THEN Raise("AttributeError")
    ELSE Return(<<TRUE, "ACCEPTING: Event has PR number and repository">>)
  ELSE Return(<<FALSE, "REJECTED: No pull_request data and no number/repository fields">>)

\* the branch taken when there is no pull_request object (if not has_pr);
\* the value is <<accepted, last log line>>
no_pull_request_case(payload) ==
  IF has(payload, "number") /\ has(payload, "repository") THEN
    \* payload.get('repository', {}).get('full_name', 'unknown')
    IF ~IsDict(get(payload, "repository", EmptyDict)) THEN Raise("AttributeError")
    ELSE Return(<<TRUE, "ACCEPTING: Event has PR number and repository">>)
  ELSE Return(<<FALSE, "REJECTED: No pull_request data and no number/repository fields">>)

\* accept_scenarios without the allow-list scenario
accept_scenarios_no_allow_list(action, has_pr, pr_number, repo_name) ==
  IF action = <<>> /\ has_pr /\ truthy(pr_number)
  THEN Return(<<TRUE, "ACCEPTING: No action specified but has PR data">>)
  ELSE IF has_pr /\ truthy(pr_number) /\ ~pyeq(repo_name, PyStr(S_unknown))
  THEN Return(<<TRUE, "ACCEPTING: Unknown action but has valid PR data">>)
  ELSE IF truthy(pr_number) /\ ~pyeq(repo_name, PyStr(S_unknown))
  THEN Return(<<TRUE, "ACCEPTING: Has PR number and repository">>)
  ELSE Return(<<FALSE, "REJECTED: Action not recognized and insufficient PR data">>)

\* the scenarios tried in order once the PR details are extracted
accept_scenarios(action, has_pr, pr_number, repo_name) ==
  IF action = <<>> /\ has_pr /\ truthy(pr_number)
  THEN Return(<<TRUE, "ACCEPTING: No action specified but has PR data">>)
  ELSE IF in_list(action, relevant_actions)
  THEN Return(<<TRUE, "ACCEPTING: Action is relevant">>)
  ELSE IF has_pr /\ truthy(pr_number) /\ ~pyeq(repo_name, PyStr(S_unknown))
  THEN Return(<<TRUE, "ACCEPTING: Unknown action but has valid PR data">>)
  ELSE IF truthy(pr_number) /\ ~pyeq(repo_name, PyStr(S_unknown))
  THEN Return(<<TRUE, "ACCEPTING: Has PR number and repository">>)
  ELSE Return(<<FALSE, "REJECTED: Action not recognized and insufficient PR data">>)

\* the try block of _is_relevant_pr_event
is_relevant_try(payload) ==
  LET action == strip(lower(str(get(payload, "action", PyStr(<<>>)))))
      has_pr == has(payload, "pull_request") /\ payload.v["pull_request"].t # "none"
  IN
  IF ~has_pr THEN no_pull_request_case(payload)
  ELSE
    LET pr_data == get(payload, "pull_request", EmptyDict) IN
    \* pr_data.get('number')
    IF ~IsDict(pr_data) THEN Raise("AttributeError")
    ELSE
      LET pr_number == or(get(pr_data, "number", PyNone), get(payload, "number", PyNone))
          repo_data == get(payload, "repository", EmptyDict)
      IN
      \* repo_data.get('full_name', 'unknown')
      IF ~IsDict(repo_data) THEN Raise("AttributeError")
      ELSE accept_scenarios(action, has_pr, pr_number,
                            get(repo_data, "full_name", PyStr(S_unknown)))

\* an except clause that rejects
is_relevant_except_reject == FALSE

\* what the except clause of _is_relevant_pr_event returns
is_relevant_except == TRUE

\* result is the returned value, raised tells
\* whether an exception left the function, fault whether the except clause ran
_is_relevant_pr_event(payload) ==
  LET r == is_relevant_try(payload) IN
  IF r.raised
  THEN [raised |-> FALSE, result |-> is_relevant_except, fault |-> TRUE,
        log |-> "Error in validation - accepting event for debugging"]
  ELSE [raised |-> FALSE, result |-> r.value[1], fault |-> FALSE, log |-> r.value[2]]


(* ---------------- models.py ---------------- *)
\* the pre-validators of PRMetadata
handle_none_description(v) == IF v.t # "none" THEN v ELSE PyStr(<<>>)
handle_none_title(v) == IF v.t # "none" THEN v ELSE PyStr(S_No_Title)
handle_none_author(v) == IF v.t # "none" THEN v ELSE PyStr(S_unknown)
handle_none_base_branch(v) == IF v.t # "none" THEN v ELSE PyStr(S_main)
handle_none_head_branch(v) == IF v.t # "none" THEN v ELSE PyStr(S_unknown)
handle_none_created_at(v) == IF v.t # "none" THEN v ELSE PyStr(<<>>)

\* PRMetadata.construct(...): the fields as given, neither validated nor defaulted
PRMetadata_construct(pr_number, repository, author, title, description, base_branch, head_branch, created_at) ==
  Return([pr_number |-> pr_number,
          repository |-> repository,
          author |-> author,
          title |-> title,
          description |-> description,
          base_branch |-> base_branch,
          head_branch |-> head_branch,
          created_at |-> created_at])

\* PRMetadata(pr_number=..., ...): the pre-validators run first, then every
\* field is checked against its declared type (int for pr_number, str for
\* the others); a field of another type raises ValidationError
PRMetadata(pr_number, repository, author, title, description, base_branch, head_branch, created_at) ==
  LET m == [pr_number |-> pr_number,
            repository |-> repository,
            author |-> handle_none_author(author),
            title |-> handle_none_title(title),
            description |-> handle_none_description(description),
            base_branch |-> handle_none_base_branch(base_branch),
            head_branch |-> handle_none_head_branch(head_branch),
            created_at |-> handle_none_created_at(created_at)]
  IN IF m.pr_number.t = "int"
        /\ \A f \in DOMAIN m \ {"pr_number"} : m[f].t = "str"
     THEN Return(m)
     ELSE Raise("ValidationError")

\* the pre-validators of FileDiff
handle_none_file_path(v) == IF v.t # "none" THEN v ELSE PyStr(S_unknown_file)
handle_none_change_type(v) == IF v.t # "none" THEN v ELSE PyStr(S_modified)
handle_none_patch(v) == IF v.t # "none" THEN v ELSE PyStr(<<>>)

\* FileDiff(file_path=..., ...): additions and deletions are declared int with
\* no pre-validator and no range constraint
FileDiff(file_path, change_type, additions, deletions, patch) ==
  LET d == [file_path |-> handle_none_file_path(file_path),
            change_type |-> handle_none_change_type(change_type),
            additions |-> additions,
            deletions |-> deletions,
            patch |-> handle_none_patch(patch)]
  IN IF d.additions.t = "int" /\ d.deletions.t = "int"
        /\ \A f \in {"file_path", "change_type", "patch"} : d[f].t = "str"
     THEN Return(d)
     ELSE Raise("ValidationError")

\* ParsedDiff(...) from values that are already validated
ParsedDiff(pr_metadata, modified_files, commit_messages, total_additions, total_deletions) ==
  [pr_metadata |-> pr_metadata,
   modified_files |-> modified_files,
   commit_messages |-> commit_messages,
   total_additions |-> total_additions,
   total_deletions |-> total_deletions]

(* ---------------- webhook_handler.py: the metadata extractor ---------------- *)
RaiseMsg(e, m) == [raised |-> TRUE, exc |-> e, msg |-> m]

\* d.get(k, {}).get(k2, default) for a dict d: raises when d[k] is not a dict
get2(d, k, k2, default) ==
  LET inner == get(d, k, EmptyDict) IN
  IF IsDict(inner) THEN Return(get(inner, k2, default)) ELSE Raise("AttributeError")

\* the try block of _extract_pr_metadata
extract_try(payload) ==
  LET pr_data == get(payload, "pull_request", EmptyDict)
      repo_data == get(payload, "repository", EmptyDict)
  IN
  IF ~IsDict(pr_data) \/ ~IsDict(repo_data) THEN Raise("AttributeError")
  ELSE
    LET pr_number == get(pr_data, "number", PyNone)
        repository == get(repo_data, "full_name", PyNone)
    IN
    IF ~truthy(pr_number)
    THEN RaiseMsg("WebhookValidationError", "PR number missing from payload")
    ELSE IF ~truthy(repository)
    THEN RaiseMsg("WebhookValidationError", "Repository name missing from payload")
    ELSE
      LET author == get2(pr_data, "user", "login", PyStr(S_unknown))
          title == get(pr_data, "title", PyStr(S_No_title))
          description == or(get(pr_data, "body", PyNone), PyStr(<<>>))
          base_branch == get2(pr_data, "base", "ref", PyStr(S_main))
          head_branch == get2(pr_data, "head", "ref", PyStr(S_unknown))
          created_at == get(pr_data, "created_at", PyStr(<<>>))
      IN
      IF author.raised \/ base_branch.raised \/ head_branch.raised
      THEN Raise("AttributeError")
      ELSE PRMetadata(pr_number, repository, author.value, title, description,
                      base_branch.value, head_branch.value, created_at)

\* _extract_pr_metadata(payload): a WebhookValidationError passes through,
\* any other exception is turned into one
_extract_pr_metadata(payload) ==
  LET r == extract_try(payload) IN
  IF r.raised /\ r.exc # "WebhookValidationError"
  THEN RaiseMsg("WebhookValidationError", "Failed to extract PR metadata")
  ELSE r


(* ---------------- github_client.py ---------------- *)
\* An upstream answer is one of
\*   [kind |-> "error", exc |-> e]   the request raised (connection, timeout)
\*   [kind |-> "status", code |-> c] an answer with a 4xx/5xx status
\*   [kind |-> "invalid_json"]       a 2xx answer whose body is not JSON
\*   [kind |-> "json", body |-> v]   a 2xx answer with JSON body v
\* session.get(url, timeout=30); raise_for_status(); response.json():
\* the JSON body, or the RequestException raised on the way
response_json(resp) ==
  CASE resp.kind = "error" -> Raise("RequestException")
    [] resp.kind = "status" -> Raise("RequestException")
    [] resp.kind = "invalid_json" -> Raise("RequestException")
    [] resp.kind = "json" -> Return(resp.body)

_get_mock_pr_data(repo, pr_number) ==
  PyDict([number |-> PyInt(pr_number),
          title |-> PyStr(S_Mock_PR_hash \o int_str(pr_number)),
          body |-> PyStr(S_mock_body),
          state |-> PyStr(S_open),
          user |-> PyDict([login |-> PyStr(S_mock_user)]),
          base |-> PyDict([ref |-> PyStr(S_main)]),
          head |-> PyDict([ref |-> PyStr(S_feature_branch)]),
          created_at |-> PyStr(S_default_ts),
          updated_at |-> PyStr(S_default_ts),
          additions |-> PyInt(10),
          deletions |-> PyInt(5),
          changed_files |-> PyInt(2)])

_fetch_pr_sync(resp, repo, pr_number) ==
  LET j == response_json(resp) IN
  IF j.raised THEN Return(_get_mock_pr_data(repo, pr_number))
  ELSE
    LET pr_data == j.value IN
    IF ~IsDict(pr_data) THEN Raise("AttributeError")
    ELSE Return(PyDict(
      [number |-> get(pr_data, "number", PyInt(pr_number)),
       title |-> or(get(pr_data, "title", PyNone), PyStr(S_PR_hash \o int_str(pr_number))),
       body |-> or(get(pr_data, "body", PyNone), PyStr(<<>>)),
       state |-> or(get(pr_data, "state", PyNone), PyStr(S_open)),
       user |-> or(get(pr_data, "user", PyNone), PyDict([login |-> PyStr(S_unknown)])),
       base |-> or(get(pr_data, "base", PyNone), PyDict([ref |-> PyStr(S_main)])),
       head |-> or(get(pr_data, "head", PyNone), PyDict([ref |-> PyStr(S_feature)])),
       created_at |-> or(get(pr_data, "created_at", PyNone), PyStr(S_default_ts)),
       updated_at |-> or(get(pr_data, "updated_at", PyNone), PyStr(S_default_ts)),
       additions |-> get(pr_data, "additions", PyInt(0)),
       deletions |-> get(pr_data, "deletions", PyInt(0)),
       changed_files |-> get(pr_data, "changed_files", PyInt(0))]))

\* get_pr_data(repo, pr_number) when the upstream answers resp
get_pr_data(resp, repo, pr_number) ==
  LET r == _fetch_pr_sync(resp, repo, pr_number) IN
  IF r.raised THEN _get_mock_pr_data(repo, pr_number) ELSE r.value

_get_mock_files_data ==
  << PyDict([filename |-> PyStr(S_mock_file1),
             status |-> PyStr(S_modified),
             additions |-> PyInt(10),
             deletions |-> PyInt(5),
             patch |-> PyStr(S_mock_patch1)]),
     PyDict([filename |-> PyStr(S_mock_file2),
             status |-> PyStr(S_modified),
             additions |-> PyInt(2),
             deletions |-> PyInt(1),
             patch |-> PyStr(S_mock_patch2)]) >>

\* the dict built for one element of the files answer
safe_file(file_data) ==
  PyDict([filename |-> or(get(file_data, "filename", PyNone), PyStr(S_unknown_file)),
          status |-> or(get(file_data, "status", PyNone), PyStr(S_modified)),
          additions |-> get(file_data, "additions", PyInt(0)),
          deletions |-> get(file_data, "deletions", PyInt(0)),
          patch |-> or(get(file_data, "patch", PyNone), PyStr(<<>>))])

\* the loop "for file_data in files_data" over a JSON body: a list yields its
\* elements, a dict its keys and a str its characters (neither has .get),
\* None and an int are not iterable
safe_files_loop(files_data) ==
  CASE files_data.t = "list" ->
         IF \E i \in DOMAIN files_data.v : ~IsDict(files_data.v[i])
         THEN Raise("AttributeError")
         ELSE Return([i \in 1..Len(files_data.v) |-> safe_file(files_data.v[i])])
    [] files_data.t = "dict" ->
         IF DOMAIN files_data.v = {} THEN Return(<<>>) ELSE Raise("AttributeError")
    [] files_data.t = "str" ->
         IF Len(files_data.v) = 0 THEN Return(<<>>) ELSE Raise("AttributeError")
    [] files_data.t \in {"none", "int"} -> Raise("TypeError")

_fetch_pr_files_sync(resp) ==
  LET j == response_json(resp) IN
  IF j.raised THEN Return(_get_mock_files_data) ELSE safe_files_loop(j.value)

\* get_pr_files(repo, pr_number) when the upstream answers resp
get_pr_files(resp) ==
  LET r == _fetch_pr_files_sync(resp) IN
  IF r.raised
  THEN [raised |-> FALSE, value |-> _get_mock_files_data]
  ELSE [raised |-> FALSE, value |-> r.value]

(* ---------------- diff_parser.py ---------------- *)
\* FileDiff(...) of one fetched record
file_diff_of(file_data) ==
  FileDiff(get(file_data, "filename", PyStr(<<>>)),
           get(file_data, "status", PyStr(S_modified)),
           get(file_data, "additions", PyInt(0)),
           get(file_data, "deletions", PyInt(0)),
           get(file_data, "patch", PyStr(<<>>)))

\* "total = file_diff.<field>" in place of "total += file_diff.<field>"
sum_field_assign(files, f) == IF files = <<>> THEN 0 ELSE files[Len(files)][f].v

\* total += file_diff.<field> over the records built so far
RECURSIVE sum_field(_, _)
sum_field(files, f) ==
  IF files = <<>> THEN 0 ELSE files[1][f].v + sum_field(Tail(files), f)

\* a try block that builds the records from the last fetched record backwards
parse_try_reversed(pr_metadata, files_data) ==
  IF \E i \in DOMAIN files_data : file_diff_of(files_data[i]).raised
  THEN Raise("ValidationError")
  ELSE
    LET n == Len(files_data)
        modified_files == [i \in 1..n |-> file_diff_of(files_data[n + 1 - i]).value]
    IN Return(ParsedDiff(pr_metadata, modified_files,
                         <<S_changes_in_pr \o int_str(pr_metadata.pr_number.v)>>,
                         sum_field(modified_files, "additions"),
                         sum_field(modified_files, "deletions")))

\* the try block of parse_pr_diff, given the list get_pr_files returned
parse_try(pr_metadata, files_data) ==
  IF \E i \in DOMAIN files_data : file_diff_of(files_data[i]).raised
  THEN Raise("ValidationError")
  ELSE
    LET modified_files == [i \in 1..Len(files_data) |-> file_diff_of(files_data[i]).value]
    IN Return(ParsedDiff(pr_metadata, modified_files,
                         <<S_changes_in_pr \o int_str(pr_metadata.pr_number.v)>>,
                         sum_field(modified_files, "additions"),
                         sum_field(modified_files, "deletions")))

\* an except clause that returns no file record
parse_except_no_file(pr_metadata) ==
  ParsedDiff(pr_metadata, <<>>, <<S_error_commits>>, 0, 0)

\* the except clause of parse_pr_diff
parse_except(pr_metadata) ==
  LET mock_file_diff == FileDiff(PyStr(S_error_mock), PyStr(S_modified), PyInt(0),
                                 PyInt(0), PyStr(S_error_patch)).value
  IN ParsedDiff(pr_metadata, <<mock_file_diff>>, <<S_error_commits>>, 0, 0)

\* parse_pr_diff(pr_metadata) once get_pr_files has returned files_data;
\* fault tells whether the except clause ran
parse_pr_diff(pr_metadata, files_data) ==
  LET r == parse_try(pr_metadata, files_data) IN
  IF r.raised
  THEN [raised |-> FALSE, value |-> parse_except(pr_metadata), fault |-> TRUE]
  ELSE [raised |-> FALSE, value |-> r.value, fault |-> FALSE]

(* ---------------- main.py: metadata of the on-demand path ---------------- *)
\* safe_get(data, *keys, default=...)
RECURSIVE safe_get(_, _, _)
safe_get(data, keys, default) ==
  IF keys = <<>> THEN (IF data.t # "none" THEN data ELSE default)
  ELSE IF IsDict(data) /\ has(data, Head(keys))
       THEN safe_get(data.v[Head(keys)], Tail(keys), default)
       ELSE default

_create_pr_metadata_from_api(pr_data, repo) ==
  PRMetadata(get(pr_data, "number", PyInt(0)),
             repo,
             safe_get(pr_data, <<"user", "login">>, PyStr(S_unknown)),
             safe_get(pr_data, <<"title">>, PyStr(S_No_Title)),
             safe_get(pr_data, <<"body">>, PyStr(<<>>)),
             safe_get(pr_data, <<"base", "ref">>, PyStr(S_main)),
             safe_get(pr_data, <<"head", "ref">>, PyStr(S_unknown)),
             safe_get(pr_data, <<"created_at">>, PyStr(<<>>)))


(* ---------------- main.py: the payload for the embedding service ---------------- *)
S_No_patch == <<"N", "o", " ", "p", "a", "t", "c", "h", " ", "c", "o", "n", "t", "e", "n", "t", " ", "a", "v", "a", "i", "l", "a", "b", "l", "e">>
S_Context_failed == <<"C", "o", "n", "t", "e", "x", "t", " ", "e", "x", "t", "r", "a", "c", "t", "i", "o", "n", " ", "f", "a", "i", "l", "e", "d">>
S_example_function == <<"e", "x", "a", "m", "p", "l", "e", "_", "f", "u", "n", "c", "t", "i", "o", "n">>
S_exampleFunction == <<"e", "x", "a", "m", "p", "l", "e", "F", "u", "n", "c", "t", "i", "o", "n">>
S_function == <<"f", "u", "n", "c", "t", "i", "o", "n">>
S_python == <<"p", "y", "t", "h", "o", "n">>
S_javascript == <<"j", "a", "v", "a", "s", "c", "r", "i", "p", "t">>
S_github_webhook == <<"g", "i", "t", "h", "u", "b", "_", "w", "e", "b", "h", "o", "o", "k">>
S_on_demand_api == <<"o", "n", "_", "d", "e", "m", "a", "n", "d", "_", "a", "p", "i">>
S_service_version == <<"1", ".", "0", ".", "0">>
S_ellipsis == <<".", ".", ".">>
S_symbol_file == <<"s", "r", "c", "/", "e", "x", "a", "m", "p", "l", "e", ".", "p", "y">>
S_Mock_context == <<"M", "o", "c", "k", " ", "c", "o", "n", "t", "e", "x", "t", " ", "f", "o", "r", " ", "e", "m", "b", "e", "d", "d", "i", "n", "g">>
S_py == <<"p", "y">>
code_extensions ==
  {<<".", "p", "y">>,
   <<".", "j", "s">>,
   <<".", "j", "a", "v", "a">>,
   <<".", "t", "s">>,
   <<".", "g", "o">>,
   <<".", "c", "p", "p">>,
   <<".", "c">>,
   <<".", "r", "b">>,
   <<".", "p", "h", "p">>,
   <<".", "c", "s">>,
   <<".", "j", "s", "x">>,
   <<".", "t", "s", "x">>}
javascript_extensions ==
  <<<<"j", "s">>, <<"t", "s">>, <<"j", "s", "x">>, <<"t", "s", "x">>>>

\* the longest patch the on-demand payload carries unabridged
PatchLimit == 500
\* the number of context lines kept
ContextLines == 10

\* c in s
contains(s, c) == \E i \in DOMAIN s : s[i] = c
\* s.startswith(prefix)
startswith(s, prefix) == Len(s) >= Len(prefix) /\ SubSeq(s, 1, Len(prefix)) = prefix
\* s[:n]
prefix_of(s, n) == IF Len(s) <= n THEN s ELSE SubSeq(s, 1, n)
\* s[1:]
drop_first(s) == IF s = <<>> THEN <<>> ELSE Tail(s)

\* s.split(sep) for a one-character sep: the pieces between the separators
RECURSIVE split(_, _)
split(s, sep) ==
  IF ~contains(s, sep) THEN <<s>>
  ELSE LET i == CHOOSE j \in DOMAIN s : s[j] = sep /\ \A k \in 1..(j - 1) : s[k] # sep
       IN <<SubSeq(s, 1, i - 1)>> \o split(SubSeq(s, i + 1, Len(s)), sep)

\* sep.join(parts)
RECURSIVE join(_, _)
join(sep, parts) ==
  IF parts = <<>> THEN <<>>
  ELSE IF Len(parts) = 1 THEN parts[1]
  ELSE parts[1] \o sep \o join(sep, Tail(parts))

_get_file_extension(file_path) ==
  IF contains(file_path, ".")
  THEN LET parts == split(file_path, ".") IN parts[Len(parts)]
  ELSE <<>>

_is_code_file_no_dot(file_path) ==
  lower(_get_file_extension(file_path)) \in code_extensions

_is_code_file(file_path) ==
  lower(<<".">> \o _get_file_extension(file_path)) \in code_extensions

\* a line test that also keeps the +++ header lines
is_context_line_with_headers(line) ==
  startswith(line, <<"+">>) \/ startswith(line, <<" ">>)

\* a line _extract_context_from_patch keeps: added (not a +++ header) or context
is_context_line(line) ==
  \/ startswith(line, <<"+">>) /\ ~startswith(line, <<"+", "+", "+">>)
  \/ startswith(line, <<" ">>)

\* the lines _extract_context_from_patch collects, each without its prefix
RECURSIVE context_lines_of(_)
context_lines_of(lines) ==
  IF lines = <<>> THEN <<>>
  ELSE (IF is_context_line(lines[1]) THEN <<drop_first(lines[1])>> ELSE <<>>)
       \o context_lines_of(Tail(lines))

_extract_context_from_patch(patch) ==
  IF patch = <<>> THEN S_No_patch
  ELSE LET context == join(<<"\n">>, prefix_of(context_lines_of(split(patch, "\n")), ContextLines))
       IN IF context # <<>> THEN context ELSE S_Context_failed

\* the entries _extract_symbols_for_embedding appends for one file
symbols_of_file(file_diff) ==
  LET file_ext == _get_file_extension(file_diff.file_path.v)
      entry(name, language) ==
        [symbol_name |-> PyStr(name),
         symbol_type |-> PyStr(S_function),
         file_path |-> file_diff.file_path,
         context |-> PyStr(_extract_context_from_patch(file_diff.patch.v)),
         change_type |-> file_diff.change_type,
         language |-> PyStr(language)]
  IN IF ~_is_code_file(file_diff.file_path.v) THEN <<>>
     ELSE IF file_ext = S_py THEN <<entry(S_example_function, S_python)>>
     ELSE IF in_list(file_ext, javascript_extensions)
          THEN <<entry(S_exampleFunction, S_javascript)>>
     ELSE <<>>

RECURSIVE _extract_symbols_for_embedding(_)
_extract_symbols_for_embedding(modified_files) ==
  IF modified_files = <<>> THEN <<>>
  ELSE symbols_of_file(modified_files[1]) \o _extract_symbols_for_embedding(Tail(modified_files))

\* [entry(f) for f in modified_files] of the webhook payload
webhook_file_entry(file_diff) ==
  [file_path |-> file_diff.file_path,
   change_type |-> file_diff.change_type,
   additions |-> file_diff.additions,
   deletions |-> file_diff.deletions,
   patch |-> file_diff.patch,
   file_extension |-> PyStr(_get_file_extension(file_diff.file_path.v)),
   is_code_file |-> _is_code_file(file_diff.file_path.v)]

\* len([f for f in modified_files if _is_code_file(f.file_path)])
code_files_count(modified_files) ==
  Cardinality({i \in DOMAIN modified_files : _is_code_file(modified_files[i].file_path.v)})

\* the dict process_webhook returns (webhook_handler.py, step 7)
process_webhook_result(pr_metadata, parsed_diff, elapsed_ms) ==
  [status |-> "success",
   pr_number |-> pr_metadata.pr_number,
   repository |-> pr_metadata.repository,
   files_processed |-> Len(parsed_diff.modified_files),
   total_additions |-> parsed_diff.total_additions,
   total_deletions |-> parsed_diff.total_deletions,
   processing_time_ms |-> elapsed_ms,
   parsed_diff |-> parsed_diff]

_prepare_step_3_payload_from_webhook(webhook_result, now) ==
  IF "parsed_diff" \in DOMAIN webhook_result
  THEN LET parsed_diff == webhook_result.parsed_diff
       IN [pr_metadata |->
             [pr_number |-> webhook_result.pr_number,
              repository |-> webhook_result.repository,
              author |-> parsed_diff.pr_metadata.author,
              title |-> parsed_diff.pr_metadata.title,
              description |-> parsed_diff.pr_metadata.description,
              base_branch |-> parsed_diff.pr_metadata.base_branch,
              head_branch |-> parsed_diff.pr_metadata.head_branch,
              created_at |-> parsed_diff.pr_metadata.created_at,
              trigger_type |-> PyStr(S_github_webhook)],
           modified_files |->
             [i \in DOMAIN parsed_diff.modified_files |->
                webhook_file_entry(parsed_diff.modified_files[i])],
           symbols_for_embedding |-> _extract_symbols_for_embedding(parsed_diff.modified_files),
           commit_messages |-> parsed_diff.commit_messages,
           processing_metadata |->
             [total_files |-> Len(parsed_diff.modified_files),
              code_files |-> code_files_count(parsed_diff.modified_files),
              total_additions |-> parsed_diff.total_additions,
              total_deletions |-> parsed_diff.total_deletions,
              processing_time_ms |-> webhook_result.processing_time_ms,
              timestamp |-> now,
              service_version |-> PyStr(S_service_version)]]
  ELSE [pr_metadata |->
          [pr_number |-> webhook_result.pr_number,
           repository |-> webhook_result.repository,
           trigger_type |-> PyStr(S_github_webhook)],
        modified_files |-> <<>>,
        symbols_for_embedding |-> <<>>,
        commit_messages |-> <<>>,
        processing_metadata |->
          [total_files |-> webhook_result.files_processed,
           total_additions |-> webhook_result.total_additions,
           total_deletions |-> webhook_result.total_deletions,
           processing_time_ms |-> webhook_result.processing_time_ms,
           timestamp |-> now,
           service_version |-> PyStr(S_service_version),
           note |-> "Limited data - parsed_diff not available"]]

\* patch[:500] + "..." if len(patch) > 500 else patch
truncate_patch_at_or_over(patch) ==
  IF Len(patch) >= PatchLimit THEN prefix_of(patch, PatchLimit) \o S_ellipsis ELSE patch
truncate_patch(patch) ==
  IF Len(patch) > PatchLimit THEN prefix_of(patch, PatchLimit) \o S_ellipsis ELSE patch

on_demand_file_entry(file_diff) ==
  [file_path |-> file_diff.file_path,
   change_type |-> file_diff.change_type,
   additions |-> file_diff.additions,
   deletions |-> file_diff.deletions,
   patch |-> PyStr(truncate_patch(file_diff.patch.v))]

\* the fixed entry the on-demand payload carries
mock_symbol ==
  [symbol_name |-> PyStr(S_example_function),
   symbol_type |-> PyStr(S_function),
   file_path |-> PyStr(S_symbol_file),
   context |-> PyStr(S_Mock_context),
   change_type |-> PyStr(S_modified)]

\* the result dict analyze_pr_by_id prepares
analyze_result(pr_id, repo, parsed_diff) ==
  [status |-> "success",
   pr_number |-> PyInt(pr_id),
   repository |-> repo,
   files_processed |-> Len(parsed_diff.modified_files),
   total_additions |-> parsed_diff.total_additions,
   total_deletions |-> parsed_diff.total_deletions,
   trigger |-> PyStr(S_on_demand_api)]

_prepare_step_3_payload(result, parsed_diff) ==
  [pr_metadata |->
     [pr_number |-> result.pr_number,
      repository |-> result.repository,
      trigger_type |-> IF "trigger" \in DOMAIN result THEN result.trigger ELSE PyStr(S_unknown)],
   processing_metadata |->
     [total_files |-> result.files_processed,
      total_additions |-> result.total_additions,
      total_deletions |-> result.total_deletions,
      processing_time_ms |->
        IF "processing_time_ms" \in DOMAIN result THEN result.processing_time_ms ELSE 0],
   modified_files |->
     [i \in DOMAIN parsed_diff.modified_files |->
        on_demand_file_entry(parsed_diff.modified_files[i])],
   symbols_for_embedding |-> <<mock_symbol>>,
   commit_messages |-> parsed_diff.commit_messages]

(* ---------------- the two endpoints, end to end ---------------- *)
\* process_webhook, "LOG RAW PAYLOAD": .get on the pull_request and repository
\* values and a slice of the title
log_raw_payload(payload) ==
  LET pr == get(payload, "pull_request", EmptyDict)
      repo == get(payload, "repository", EmptyDict)
  IN IF ~IsDict(pr) THEN Raise("AttributeError")
     ELSE IF get(pr, "title", PyStr(<<>>)).t \notin {"str", "list"} THEN Raise("TypeError")
     ELSE IF ~IsDict(repo) THEN Raise("AttributeError")
     ELSE Return(PyNone)

_log_webhook_debug_info(payload) ==
  LET has_pr == has(payload, "pull_request")
      pr_data == get(payload, "pull_request", EmptyDict)
      pr_number == IF truthy(get(payload, "number", PyNone))
                   THEN Return(get(payload, "number", PyNone))
                   ELSE get2(payload, "pull_request", "number", PyNone)
      repo_name == get2(payload, "repository", "full_name", PyStr(S_unknown))
  IN IF pr_number.raised \/ repo_name.raised THEN Raise("AttributeError")
     ELSE IF has_pr /\ ~IsDict(pr_data) THEN Raise("AttributeError")
     ELSE IF has_pr /\ get2(pr_data, "user", "login", PyStr(S_unknown)).raised
          THEN Raise("AttributeError")
     ELSE Return(PyNone)

\* steps 2 and 3 of process_webhook, which run before the classifier
log_payload(payload) ==
  IF log_raw_payload(payload).raised THEN log_raw_payload(payload)
  ELSE _log_webhook_debug_info(payload)

\* handle_pr_webhook: the response for a processed delivery
webhook_success(result, payload3, now) ==
  [status_code |-> 200,
   content |->
     [status |-> "success",
      message |-> "Webhook processed automatically",
      trigger |-> "github_webhook",
      timestamp |-> now,
      webhook_summary |->
        [pr_number |-> result.pr_number,
         repository |-> result.repository,
         files_processed |-> result.files_processed,
         total_additions |-> result.total_additions,
         total_deletions |-> result.total_deletions,
         processing_time_ms |-> result.processing_time_ms],
      step_3_payload |-> payload3,
      step_3_ready |-> TRUE]]

\* handle_pr_webhook: except WebhookValidationError
webhook_ignored(reason, now) ==
  [status_code |-> 200,
   content |->
     [status |-> "ignored",
      reason |-> reason,
      trigger |-> "github_webhook",
      timestamp |-> now,
      step_3_ready |-> FALSE]]

\* handle_pr_webhook: except Exception; the dict it stores and the error it raises
webhook_error_record(error, now) ==
  [status |-> "error",
   error |-> error,
   trigger |-> "github_webhook",
   timestamp |-> now,
   step_3_ready |-> FALSE]

HTTPException(status_code, detail) == [status_code |-> status_code, detail |-> detail]

\* analyze_pr_by_id: "Validate inputs"
validate_inputs_allows_zero(pr_id, repo) ==
  IF repo.v = <<>> \/ ~contains(repo.v, "/")
  THEN Return(HTTPException(400, "Repository must be in format 'owner/repo'"))
  ELSE IF pr_id < 0
  THEN Return(HTTPException(400, "PR ID must be a positive integer"))
  ELSE Return(PyNone)
validate_inputs(pr_id, repo) ==
  IF repo.v = <<>> \/ ~contains(repo.v, "/")
  THEN Return(HTTPException(400, "Repository must be in format 'owner/repo'"))
  ELSE IF pr_id <= 0
  THEN Return(HTTPException(400, "PR ID must be a positive integer"))
  ELSE Return(PyNone)

\* analyze_pr_by_id: the response for an analysed PR
analyze_success(pr_id, result, payload3, pr_metadata, parsed_diff) ==
  [status_code |-> 200,
   content |->
     [status |-> "success",
      message |-> <<"PR ", pr_id, " analyzed successfully">>,
      trigger |-> "on_demand_api",
      data |-> result,
      step_3_payload |-> payload3,
      analysis_details |->
        [pr_metadata |-> pr_metadata,
         modified_files |-> parsed_diff.modified_files,
         commit_messages |-> parsed_diff.commit_messages]]]

(* ---------------- the endpoints between two suspensions ---------------- *)
\* A coroutine runs alone on the event loop from one await that suspends to
\* the next; the awaits that suspend are request.body() and run_in_executor.

\* handle_pr_webhook that does not store the error record
handle_pr_webhook_until_fetch_error_not_stored(payload, slot, now) ==
  IF log_payload(payload).raised
  THEN [pc |-> "done", response |-> HTTPException(500, "Internal server error"),
        slot |-> slot, writes |-> 0, pr_metadata |-> PyNone]
  ELSE IF ~_is_relevant_pr_event(payload).result
  THEN [pc |-> "done", response |-> webhook_ignored("Not a relevant PR event", now),
        slot |-> webhook_ignored("Not a relevant PR event", now).content, writes |-> 1,
        pr_metadata |-> PyNone]
  ELSE IF _extract_pr_metadata(payload).raised
  THEN [pc |-> "done", response |-> webhook_ignored(_extract_pr_metadata(payload).msg, now),
        slot |-> webhook_ignored(_extract_pr_metadata(payload).msg, now).content,
        writes |-> 1, pr_metadata |-> PyNone]
  ELSE [pc |-> "fetching", response |-> PyNone, slot |-> slot, writes |-> 0,
        pr_metadata |-> _extract_pr_metadata(payload).value]

\* handle_pr_webhook from the body to the await of the files listing, or to
\* its end when process_webhook raises before: where it stands, what it
\* answers, the slot after it and the number of times it assigned the slot
handle_pr_webhook_until_fetch(payload, slot, now) ==
  IF log_payload(payload).raised
  THEN [pc |-> "done", response |-> HTTPException(500, "Internal server error"),
        slot |-> webhook_error_record(log_payload(payload).exc, now), writes |-> 1,
        pr_metadata |-> PyNone]
  ELSE IF ~_is_relevant_pr_event(payload).result
  THEN [pc |-> "done", response |-> webhook_ignored("Not a relevant PR event", now),
        slot |-> webhook_ignored("Not a relevant PR event", now).content, writes |-> 1,
        pr_metadata |-> PyNone]
  ELSE IF _extract_pr_metadata(payload).raised
  THEN [pc |-> "done", response |-> webhook_ignored(_extract_pr_metadata(payload).msg, now),
        slot |-> webhook_ignored(_extract_pr_metadata(payload).msg, now).content,
        writes |-> 1, pr_metadata |-> PyNone]
  ELSE [pc |-> "fetching", response |-> PyNone, slot |-> slot, writes |-> 0,
        pr_metadata |-> _extract_pr_metadata(payload).value]

\* handle_pr_webhook from the answer of the files listing to its end
handle_pr_webhook_after_fetch(pr_metadata, answer, elapsed_ms, now) ==
  LET parsed_diff == parse_pr_diff(pr_metadata, get_pr_files(answer).value).value
      result == process_webhook_result(pr_metadata, parsed_diff, elapsed_ms)
      response == webhook_success(result, _prepare_step_3_payload_from_webhook(result, now), now)
  IN [pc |-> "done", response |-> response, slot |-> response.content, writes |-> 1,
      pr_metadata |-> pr_metadata]

\* analyze_pr_by_id up to the await of the PR lookup
analyze_pr_by_id_until_lookup(request) ==
  IF validate_inputs(request.pr_id, request.repo).value # PyNone
  THEN [pc |-> "done", response |-> validate_inputs(request.pr_id, request.repo).value,
        pr_metadata |-> PyNone]
  ELSE [pc |-> "looking_up", response |-> PyNone, pr_metadata |-> PyNone]

\* analyze_pr_by_id from the answer of the PR lookup to the await of the
\* files listing
analyze_pr_by_id_after_lookup(request, answer) ==
  LET created == _create_pr_metadata_from_api(get_pr_data(answer, request.repo, request.pr_id),
                                              request.repo)
  IN IF created.raised
     THEN [pc |-> "done", response |-> HTTPException(500, "Failed to process PR metadata"),
           pr_metadata |-> PyNone]
     ELSE [pc |-> "fetching", response |-> PyNone, pr_metadata |-> created.value]

\* analyze_pr_by_id from the answer of the files listing to its end
analyze_pr_by_id_after_fetch(request, pr_metadata, answer) ==
  LET parsed_diff == parse_pr_diff(pr_metadata, get_pr_files(answer).value).value
      result == analyze_result(request.pr_id, request.repo, parsed_diff)
  IN [pc |-> "done",
      response |-> analyze_success(request.pr_id, result,
                                   _prepare_step_3_payload(result, parsed_diff),
                                   pr_metadata, parsed_diff),
      pr_metadata |-> pr_metadata]

(* ---------------- inputs ---------------- *)
S_acme_widgets == <<"a", "c", "m", "e", "/", "w", "i", "d", "g", "e", "t", "s">>
S_alice == <<"a", "l", "i", "c", "e">>
S_Fix_parser == <<"F", "i", "x", " ", "p", "a", "r", "s", "e", "r">>
S_text == <<"t", "e", "x", "t">>
S_dev == <<"d", "e", "v">>
S_feat == <<"f", "e", "a", "t">>
S_ts == <<"2", "0", "2", "5", "-", "0", "1", "-", "0", "1", "T", "0", "0", ":", "0", "0", ":", "0", "0", "Z">>
S_a_py == <<"a", ".", "p", "y">>
S_added == <<"a", "d", "d", "e", "d">>
S_patch == <<"@", "@", " ", "-", "1", " ", "+", "1", " ", "@", "@", "\n", "+", "x", "=", "1">>
S_x == <<"x">>
S_deleted == <<"d", "e", "l", "e", "t", "e", "d">>
S_Opened_padded == <<" ", "O", "p", "e", "n", "e", "d", "\n">>
S_CLOSED == <<"C", "L", "O", "S", "E", "D">>
S_blank == <<" ", " ">>

\* the values of the "action" key
Actions ==
  {Absent, PyNone, PyInt(5), PyStr(<<>>), PyStr(S_blank), PyStr(S_deleted),
   PyStr(S_Opened_padded), PyStr(S_CLOSED)}
  \cup {PyStr(relevant_actions[i]) : i \in DOMAIN relevant_actions}

\* deliveries that vary the keys the classifier reads
ClassifierDeliveries ==
  {MkDict([action |-> a, pull_request |-> p, number |-> n, repository |-> r]) :
     a \in Actions,
     p \in {Absent, PyNone, PyStr(S_x)}
           \cup {MkDict([number |-> pn]) : pn \in {Absent, PyNone, PyInt(0), PyInt(42)}},
     n \in {Absent, PyNone, PyInt(7)},
     r \in {Absent, PyNone, PyStr(S_x)}
           \cup {MkDict([full_name |-> fn]) :
                   fn \in {Absent, PyNone, PyStr(S_unknown), PyStr(S_acme_widgets)}}}

\* pull_request objects that vary the optional fields the extractor reads
PullRequests ==
  {MkDict([number |-> PyInt(42), user |-> u, title |-> ti, body |-> b,
           base |-> ba, head |-> h, created_at |-> c]) :
     u \in {Absent, PyNone, PyStr(S_x), MkDict([login |-> PyNone]),
            MkDict([login |-> PyStr(S_alice)])},
     ti \in {Absent, PyNone, PyInt(5), PyStr(S_Fix_parser)},
     b \in {Absent, PyNone, PyStr(S_text)},
     ba \in {Absent, PyNone, MkDict([ref |-> PyNone]), MkDict([ref |-> PyStr(S_dev)])},
     h \in {Absent, PyNone, MkDict([ref |-> Absent]), MkDict([ref |-> PyStr(S_feat)])},
     c \in {Absent, PyNone, PyStr(S_ts)}}

ExtractorDeliveries ==
  {MkDict([action |-> PyStr(relevant_actions[1]), pull_request |-> p, number |-> Absent,
           repository |-> MkDict([full_name |-> PyStr(S_acme_widgets)])]) :
     p \in PullRequests}

Deliveries == ClassifierDeliveries \cup ExtractorDeliveries


\* the answers that carry no usable body
FailedResponses ==
  {[kind |-> "error", exc |-> "ConnectionError"], [kind |-> "error", exc |-> "Timeout"],
   [kind |-> "status", code |-> 404], [kind |-> "status", code |-> 500],
   [kind |-> "invalid_json"]}

\* JSON bodies that are not of the documented shape
OddBodies ==
  {PyNone, PyInt(5), PyStr(<<>>), PyStr(S_x), EmptyDict,
   MkDict([message |-> PyStr(S_text)])}

\* answers of GET /repos/{repo}/pulls/{pr_number}
PrBodies ==
  {MkDict([number |-> n, title |-> ti, body |-> b, user |-> u, base |-> ba,
           head |-> h, created_at |-> c]) :
     n \in {Absent, PyNone, PyInt(42)},
     ti \in {Absent, PyNone, PyStr(<<>>), PyStr(S_Fix_parser)},
     b \in {Absent, PyNone, PyStr(S_text)},
     u \in {Absent, PyNone, MkDict([login |-> PyNone]), MkDict([login |-> PyStr(S_alice)])},
     ba \in {Absent, PyNone, MkDict([ref |-> PyStr(S_dev)])},
     h \in {Absent, MkDict([ref |-> PyNone]), MkDict([ref |-> PyStr(S_feat)])},
     c \in {Absent, PyNone, PyStr(S_ts)}}

PrResponses ==
  FailedResponses \cup {[kind |-> "json", body |-> b] : b \in OddBodies \cup {PyList(<<>>)} \cup PrBodies}

\* on-demand calls that passed the input checks of analyze_pr_by_id
Requests == {[pr_id |-> 42, repo |-> PyStr(S_acme_widgets)]}

\* elements of the answer of GET /repos/{repo}/pulls/{pr_number}/files
FileRecords ==
  {MkDict([filename |-> tx[1], status |-> tx[2], patch |-> tx[3],
           additions |-> nm[1], deletions |-> nm[2]]) :
     tx \in {<<Absent, Absent, Absent>>, <<PyNone, PyNone, PyNone>>,
             <<PyStr(<<>>), PyStr(<<>>), PyStr(<<>>)>>,
             <<PyStr(S_a_py), PyStr(S_added), PyStr(S_patch)>>},
     nm \in {<<Absent, Absent>>, <<PyNone, PyInt(1)>>, <<PyInt(0), PyInt(0)>>,
             <<PyInt(3), PyInt(1)>>, <<PyInt(0 - 2), PyInt(5)>>, <<PyInt(3), PyInt(0 - 1)>>}}
  \cup {PyStr(S_x)}

SeqsUpTo(S, n) == UNION {[1..k -> S] : k \in 0..n}

FilesResponses ==
  FailedResponses
  \cup {[kind |-> "json", body |-> b] : b \in OddBodies}
  \cup {[kind |-> "json", body |-> PyList(fs)] : fs \in SeqsUpTo(FileRecords, MaxFiles)}

\* metadata handed to parse_pr_diff
SampleMetadata ==
  {PRMetadata(PyInt(n), PyStr(S_acme_widgets), PyStr(S_alice), PyStr(S_Fix_parser),
              PyStr(<<>>), PyStr(S_main), PyStr(S_feat), PyStr(S_ts)) : n \in {7, 42}}

(* ---------------- inputs of the end-to-end runs ---------------- *)
S_App_java == <<"A", "p", "p", ".", "j", "a", "v", "a">>
S_x_PY == <<"x", ".", "P", "Y">>
S_app_ts == <<"a", "p", "p", ".", "t", "s">>
S_README_md == <<"R", "E", "A", "D", "M", "E", ".", "m", "d">>
S_Makefile == <<"M", "a", "k", "e", "f", "i", "l", "e">>
S_hunk_patch == <<"@", "@", " ", ".", ".", ".", " ", "+", "x", "=", "1", "\n", " ", "y", "=", "2">>
S_widgets == <<"w", "i", "d", "g", "e", "t", "s">>
S_slash == <<"/">>

\* the longest patch, in lines, that is built from PatchLineKinds
MaxPatchLines == 3

\* deliveries whose recognised keys and nested fields are absent, null or set
PipelinePullRequests ==
  {PyNone, EmptyDict, MkDict([number |-> PyInt(42)]),
   MkDict([number |-> PyInt(42), title |-> PyNone]),
   MkDict([number |-> PyInt(42), user |-> PyNone]),
   MkDict([number |-> PyInt(42), title |-> PyStr(S_Fix_parser), body |-> PyStr(S_text),
           user |-> MkDict([login |-> PyStr(S_alice)]),
           base |-> MkDict([ref |-> PyStr(S_dev)]),
           head |-> MkDict([ref |-> PyStr(S_feat)]), created_at |-> PyStr(S_ts)])}

PipelineDeliveries ==
  {MkDict([action |-> a, pull_request |-> p, number |-> n, repository |-> r]) :
     a \in {Absent, PyNone, PyStr(relevant_actions[1]), PyStr(S_deleted)},
     p \in {Absent} \cup PipelinePullRequests,
     n \in {Absent, PyInt(7)},
     r \in {Absent, PyNone, EmptyDict, MkDict([full_name |-> PyStr(S_acme_widgets)])}}

\* the delivery of a newly opened PR with every field set
ScenarioDelivery ==
  MkDict([action |-> PyStr(relevant_actions[1]),
          pull_request |->
            MkDict([number |-> PyInt(42), title |-> PyStr(S_Fix_parser),
                    body |-> PyStr(S_text), user |-> MkDict([login |-> PyStr(S_alice)]),
                    base |-> MkDict([ref |-> PyStr(S_dev)]),
                    head |-> MkDict([ref |-> PyStr(S_feat)]), created_at |-> PyStr(S_ts)]),
          repository |-> MkDict([full_name |-> PyStr(S_acme_widgets)])])

\* on-demand calls as the framework hands them to analyze_pr_by_id
OnDemandCalls ==
  {[pr_id |-> n, repo |-> PyStr(r)] :
     n \in {0 - 1, 0, 1, 42}, r \in {<<>>, S_widgets, S_slash, S_acme_widgets}}

ScenarioCall == [pr_id |-> 42, repo |-> PyStr(S_acme_widgets)]

\* the PR record with every field set
ScenarioPrBody ==
  MkDict([number |-> PyInt(42), title |-> PyStr(S_Fix_parser), body |-> PyStr(S_text),
          user |-> MkDict([login |-> PyStr(S_alice)]),
          base |-> MkDict([ref |-> PyStr(S_dev)]),
          head |-> MkDict([ref |-> PyStr(S_feat)]), created_at |-> PyStr(S_ts)])

\* answers to the PR lookup: failures, malformed bodies, partly null bodies
PipelinePrResponses ==
  {[kind |-> "error", exc |-> "ConnectionError"], [kind |-> "error", exc |-> "Timeout"],
   [kind |-> "status", code |-> 404], [kind |-> "invalid_json"]}
  \cup {[kind |-> "json", body |-> b] :
          b \in {PyNone, EmptyDict, MkDict([number |-> PyNone]),
                 MkDict([number |-> PyInt(42), title |-> PyNone, user |-> PyNone]),
                 ScenarioPrBody}}

\* the raw file record a.py with a two-line patch
HunkFileRecord ==
  MkDict([filename |-> PyStr(S_a_py), additions |-> PyInt(10), deletions |-> PyInt(5),
          patch |-> PyStr(S_hunk_patch)])

\* answers to the files listing: failures, malformed bodies, partly null records
PipelineFilesResponses ==
  {[kind |-> "error", exc |-> "Timeout"], [kind |-> "status", code |-> 500],
   [kind |-> "invalid_json"]}
  \cup {[kind |-> "json", body |-> b] :
          b \in {PyNone, PyList(<<>>), PyList(<<HunkFileRecord>>),
                 PyList(<<MkDict([filename |-> PyNone, patch |-> PyNone])>>),
                 PyList(<<PyNone>>)}}

\* the lines patches are built from
PatchLineKinds ==
  {<<"+", "x">>, <<" ", "y">>, <<"-", "z">>, <<"+", "+", "+", " ", "b">>, <<"+">>, <<>>}

\* a patch of more lines than _extract_context_from_patch keeps
LongPatchLines ==
  <<<<"+", "a">>, <<" ", "b">>, <<"-", "q">>, <<"+", "c">>, <<" ", "d">>,
    <<"+", "+", "+", " ", "e">>, <<"+", "f">>, <<" ", "g">>, <<"+", "h">>, <<" ", "i">>,
    <<"+", "j">>, <<" ", "k">>, <<"+", "l">>, <<" ", "m">>>>

\* a patch of n characters
SizedPatch(n) == [i \in 1..n |-> Digits[(i % 10) + 1]]

Patches ==
  {<<>>, S_hunk_patch}
  \cup {join(<<"\n">>, ls) : ls \in SeqsUpTo(PatchLineKinds, MaxPatchLines) \ {<<>>}}
  \cup {join(<<"\n">>, SubSeq(LongPatchLines, 1, n)) : n \in 11..Len(LongPatchLines)}
  \cup {SizedPatch(n) : n \in (PatchLimit - 1)..(PatchLimit + 1)}

FileNames == {S_a_py, S_App_java, S_x_PY, S_app_ts, S_README_md, S_Makefile}

\* one record per file name and per patch
AssemblerFileRecords ==
  {MkDict([filename |-> PyStr(f), status |-> PyStr(S_added), additions |-> PyInt(10),
           deletions |-> PyInt(5), patch |-> PyStr(S_hunk_patch)]) : f \in FileNames}
  \cup {MkDict([filename |-> PyStr(S_a_py), additions |-> PyInt(10),
                deletions |-> PyInt(5), patch |-> PyStr(pt)]) : pt \in Patches}

\* listings of one file, and of two files of different kinds
AssemblerFilesResponses ==
  {[kind |-> "json", body |-> PyList(<<r>>)] : r \in AssemblerFileRecords}
  \cup {[kind |-> "json", body |-> PyList(<<r1, r2>>)] :
          r1 \in {HunkFileRecord},
          r2 \in {MkDict([filename |-> PyStr(f), patch |-> PyStr(S_hunk_patch)]) :
                    f \in {S_App_java, S_README_md, S_app_ts}}}

\* the readings of the clock
ElapsedMs == {0, 12}
Clock == {PyStr(S_ts)}

(* ---------------- inputs of the concurrent runs ---------------- *)
\* the number of requests the server handles side by side
NumHandlers == 2

\* a processed, an ignored and a failing delivery
ConcurrentDeliveries == {ScenarioDelivery, EmptyDict, MkDict([repository |-> PyNone])}

\* an accepted and a refused call
ConcurrentCalls == {ScenarioCall, [pr_id |-> 0, repo |-> PyStr(S_acme_widgets)]}

ConcurrentPrResponses ==
  {[kind |-> "json", body |-> ScenarioPrBody],
   [kind |-> "json", body |-> MkDict([number |-> PyNone])]}

ConcurrentFilesResponses ==
  {[kind |-> "error", exc |-> "Timeout"],
   [kind |-> "json", body |-> PyList(<<HunkFileRecord>>)]}

\* a request before it is received
NewHandlers ==
  {[kind |-> "webhook", pc |-> "waiting", input |-> d, pr_metadata |-> PyNone,
    response |-> PyNone, writes |-> 0] : d \in ConcurrentDeliveries}
  \cup {[kind |-> "on_demand", pc |-> "waiting", input |-> c, pr_metadata |-> PyNone,
         response |-> PyNone, writes |-> 0] : c \in ConcurrentCalls}

(* ---------------- state ---------------- *)
VARIABLES
  pc,             \* how far the call under way has come
  payload,        \* the webhook delivery (process_webhook: payload)
  relevant,       \* what _is_relevant_pr_event returned
  request,        \* the on-demand call (analyze_pr_by_id: pr_id, repo)
  pr_response,    \* the upstream answer to the PR lookup
  pr_data,        \* what get_pr_data returned
  pr_metadata,    \* outcome of the metadata extraction: a PRMetadata or an exception
  files_response, \* the upstream answer to the files listing
  files_data,     \* what get_pr_files returned
  parsed_diff,    \* what parse_pr_diff returned
  upstream_calls, \* the requests sent to the source-control API so far, in order
  step_3_payload, \* the payload assembled for the embedding service
  response,       \* what the endpoint answered the caller
  last_webhook_response, \* the module-level slot of main.py
  handlers,       \* the requests the server handles side by side, each a coroutine
  arrivals,       \* the handlers in the order their requests were received
  finished        \* the handlers in the order they answered

vars == <<pc, payload, relevant, request, pr_response, pr_data, pr_metadata,
          files_response, files_data, parsed_diff, upstream_calls, step_3_payload,
          response, last_webhook_response, handlers, arrivals, finished>>

\* what a run of a single request leaves alone
server_vars == <<handlers, arrivals, finished>>

\* what a step that neither assembles nor answers leaves alone
answer_vars == <<step_3_payload, response, last_webhook_response>>

Unset == [t |-> "unset"]

\* nothing sent upstream, nothing assembled or answered, the slot as main.py sets it
NothingDoneYet ==
  /\ upstream_calls = <<>>
  /\ step_3_payload = Unset
  /\ response = Unset
  /\ last_webhook_response = PyNone
  /\ handlers = <<>>
  /\ arrivals = <<>>
  /\ finished = <<>>

\* a delivery reaches step 4 of process_webhook
InitWebhook ==
  /\ pc = "received"
  /\ payload \in Deliveries
  /\ relevant = Unset /\ request = Unset /\ pr_response = Unset /\ pr_data = Unset
  /\ pr_metadata = Unset /\ files_response = Unset /\ files_data = Unset
  /\ parsed_diff = Unset
  /\ NothingDoneYet

\* an on-demand call is about to look the PR up
InitOnDemand ==
  /\ pc = "requested"
  /\ request \in Requests
  /\ pr_response \in PrResponses
  /\ payload = Unset /\ relevant = Unset /\ pr_data = Unset
  /\ pr_metadata = Unset /\ files_response = Unset /\ files_data = Unset
  /\ parsed_diff = Unset
  /\ NothingDoneYet

\* parse_pr_diff is entered with a metadata value
InitParse ==
  /\ pc = "parsing"
  /\ pr_metadata \in SampleMetadata
  /\ files_response \in FilesResponses
  /\ payload = Unset /\ relevant = Unset /\ request = Unset /\ pr_response = Unset
  /\ pr_data = Unset /\ files_data = Unset /\ parsed_diff = Unset
  /\ NothingDoneYet

Init == InitWebhook \/ InitOnDemand \/ InitParse

\* process_webhook step 4: the classifier decides; a rejected delivery ends
\* in WebhookValidationError("Not a relevant PR event")
Classify ==
  /\ pc = "received"
  /\ relevant' = _is_relevant_pr_event(payload)
  /\ pc' = IF relevant'.result THEN "classified" ELSE "ignored"
  /\ UNCHANGED <<payload, request, pr_response, pr_data, pr_metadata, files_response,
                 files_data, parsed_diff>>
  /\ UNCHANGED <<upstream_calls, answer_vars>>
  /\ UNCHANGED server_vars

\* process_webhook step 5
ExtractPrMetadata ==
  /\ pc = "classified"
  /\ pr_metadata' = _extract_pr_metadata(payload)
  /\ pc' = IF pr_metadata'.raised THEN "ignored" ELSE "extracted"
  /\ UNCHANGED <<payload, relevant, request, pr_response, pr_data, files_response,
                 files_data, parsed_diff>>
  /\ UNCHANGED <<upstream_calls, answer_vars>>
  /\ UNCHANGED server_vars

\* analyze_pr_by_id: await github_client.get_pr_data(repo, pr_id)
GetPrData ==
  /\ pc = "requested"
  /\ pr_data' = get_pr_data(pr_response, request.repo, request.pr_id)
  /\ pc' = "pr_fetched"
  /\ UNCHANGED <<payload, relevant, request, pr_response, pr_metadata, files_response,
                 files_data, parsed_diff>>
  /\ upstream_calls' = Append(upstream_calls, "GET pull")
  /\ UNCHANGED answer_vars
  /\ UNCHANGED server_vars

\* analyze_pr_by_id: _create_pr_metadata_from_api(pr_data, repo); an exception
\* ends the call in HTTPException(500)
CreatePrMetadataFromApi ==
  /\ pc = "pr_fetched"
  /\ pr_metadata' = _create_pr_metadata_from_api(pr_data, request.repo)
  /\ pc' = IF pr_metadata'.raised THEN "failed" ELSE "extracted"
  /\ UNCHANGED <<payload, relevant, request, pr_response, pr_data, files_response,
                 files_data, parsed_diff>>
  /\ UNCHANGED <<upstream_calls, answer_vars>>
  /\ UNCHANGED server_vars

\* parse_pr_diff: await self.github_client.get_pr_files(...)
GetPrFiles ==
  /\ pc = "parsing"
  /\ files_data' = get_pr_files(files_response)
  /\ pc' = "files_fetched"
  /\ UNCHANGED <<payload, relevant, request, pr_response, pr_data, pr_metadata,
                 files_response, parsed_diff>>
  /\ upstream_calls' = Append(upstream_calls, "GET files")
  /\ UNCHANGED answer_vars
  /\ UNCHANGED server_vars

\* parse_pr_diff: the rest of the function after get_pr_files returned
ParsePrDiff ==
  /\ pc = "files_fetched"
  /\ parsed_diff' = parse_pr_diff(pr_metadata.value, files_data.value)
  /\ pc' = "parsed"
  /\ UNCHANGED <<payload, relevant, request, pr_response, pr_data, pr_metadata,
                 files_response, files_data>>
  /\ UNCHANGED <<upstream_calls, answer_vars>>
  /\ UNCHANGED server_vars

Next ==
  \/ Classify
  \/ ExtractPrMetadata
  \/ GetPrData
  \/ CreatePrMetadataFromApi
  \/ GetPrFiles
  \/ ParsePrDiff

Spec == Init /\ [][Next]_vars

(* ---------------- the two endpoints, end to end ---------------- *)
\* POST /webhook/pr-event: the body parsed to a JSON object; the upstream will
\* answer the files listing with files_response
InitDelivery ==
  /\ pc = "delivered"
  /\ \/ payload \in PipelineDeliveries /\ files_response \in PipelineFilesResponses
     \/ payload = ScenarioDelivery /\ files_response \in AssemblerFilesResponses
  /\ relevant = Unset /\ request = Unset /\ pr_response = Unset /\ pr_data = Unset
  /\ pr_metadata = Unset /\ files_data = Unset /\ parsed_diff = Unset
  /\ NothingDoneYet

\* POST /api/analyze-pr/{pr_id}?repo=...; the upstream will answer the PR
\* lookup with pr_response and the files listing with files_response
InitCall ==
  /\ pc = "called"
  /\ \/ /\ request \in OnDemandCalls
        /\ pr_response \in PipelinePrResponses
        /\ files_response \in PipelineFilesResponses
     \/ /\ request = ScenarioCall
        /\ pr_response = [kind |-> "json", body |-> ScenarioPrBody]
        /\ files_response \in AssemblerFilesResponses
  /\ payload = Unset /\ relevant = Unset /\ pr_data = Unset
  /\ pr_metadata = Unset /\ files_data = Unset /\ parsed_diff = Unset
  /\ NothingDoneYet

InitPipeline == InitDelivery \/ InitCall

\* process_webhook up to step 3: the payload is logged; an exception there
\* leaves process_webhook and handle_pr_webhook stores an error record and
\* raises HTTPException(500)
LogPayload ==
  /\ pc = "delivered"
  /\ \E now \in Clock :
       IF log_payload(payload).raised
       THEN /\ last_webhook_response' = webhook_error_record(log_payload(payload).exc, now)
            /\ response' = HTTPException(500, "Internal server error")
            /\ pc' = "responded"
       ELSE /\ pc' = "received"
            /\ UNCHANGED <<response, last_webhook_response>>
  /\ UNCHANGED <<payload, relevant, request, pr_response, pr_data, pr_metadata,
                 files_response, files_data, parsed_diff, upstream_calls, step_3_payload>>
  /\ UNCHANGED server_vars

\* handle_pr_webhook: except WebhookValidationError, raised by step 4 with a
\* fixed text or by _extract_pr_metadata
RespondIgnored ==
  /\ pc = "ignored"
  /\ \E now \in Clock :
       LET reason == IF pr_metadata = Unset THEN "Not a relevant PR event"
                     ELSE pr_metadata.msg
       IN /\ response' = webhook_ignored(reason, now)
          /\ last_webhook_response' = response'.content
  /\ pc' = "responded"
  /\ UNCHANGED <<payload, relevant, request, pr_response, pr_data, pr_metadata,
                 files_response, files_data, parsed_diff, upstream_calls, step_3_payload>>
  /\ UNCHANGED server_vars

\* process_webhook step 6 and analyze_pr_by_id: parse_pr_diff is called with
\* the metadata
CallParsePrDiff ==
  /\ pc = "extracted"
  /\ pc' = "parsing"
  /\ UNCHANGED <<payload, relevant, request, pr_response, pr_data, pr_metadata,
                 files_response, files_data, parsed_diff, upstream_calls, answer_vars>>
  /\ UNCHANGED server_vars

\* process_webhook step 7 and the rest of handle_pr_webhook; the log file that
\* _save_webhook_response_to_file writes is outside the state (its errors are
\* caught there)
RespondWebhook ==
  /\ pc = "parsed"
  /\ payload # Unset
  /\ \E elapsed_ms \in ElapsedMs, now \in Clock :
       LET result == process_webhook_result(pr_metadata.value, parsed_diff.value, elapsed_ms)
       IN /\ step_3_payload' = _prepare_step_3_payload_from_webhook(result, now)
          /\ response' = webhook_success(result, step_3_payload', now)
          /\ last_webhook_response' = response'.content
  /\ pc' = "responded"
  /\ UNCHANGED <<payload, relevant, request, pr_response, pr_data, pr_metadata,
                 files_response, files_data, parsed_diff, upstream_calls>>
  /\ UNCHANGED server_vars

\* analyze_pr_by_id: "Validate inputs"; a refused call ends in HTTPException(400)
ValidateInputs ==
  /\ pc = "called"
  /\ LET refusal == validate_inputs(request.pr_id, request.repo).value
     IN IF refusal = PyNone
        THEN pc' = "requested" /\ UNCHANGED response
        ELSE pc' = "responded" /\ response' = refusal
  /\ UNCHANGED <<payload, relevant, request, pr_response, pr_data, pr_metadata,
                 files_response, files_data, parsed_diff, upstream_calls, step_3_payload,
                 last_webhook_response>>
  /\ UNCHANGED server_vars

\* analyze_pr_by_id: the metadata could not be built; HTTPException(500)
RespondFailed ==
  /\ pc = "failed"
  /\ response' = HTTPException(500, "Failed to process PR metadata")
  /\ pc' = "responded"
  /\ UNCHANGED <<payload, relevant, request, pr_response, pr_data, pr_metadata,
                 files_response, files_data, parsed_diff, upstream_calls, step_3_payload,
                 last_webhook_response>>
  /\ UNCHANGED server_vars

\* analyze_pr_by_id: "Prepare result" to the JSONResponse
RespondOnDemand ==
  /\ pc = "parsed"
  /\ request # Unset
  /\ LET result == analyze_result(request.pr_id, request.repo, parsed_diff.value)
     IN /\ step_3_payload' = _prepare_step_3_payload(result, parsed_diff.value)
        /\ response' = analyze_success(request.pr_id, result, step_3_payload',
                                       pr_metadata.value, parsed_diff.value)
  /\ pc' = "responded"
  /\ UNCHANGED <<payload, relevant, request, pr_response, pr_data, pr_metadata,
                 files_response, files_data, parsed_diff, upstream_calls,
                 last_webhook_response>>
  /\ UNCHANGED server_vars

NextPipeline ==
  \/ LogPayload
  \/ Classify
  \/ ExtractPrMetadata
  \/ RespondIgnored
  \/ ValidateInputs
  \/ GetPrData
  \/ CreatePrMetadataFromApi
  \/ RespondFailed
  \/ CallParsePrDiff
  \/ GetPrFiles
  \/ ParsePrDiff
  \/ RespondWebhook
  \/ RespondOnDemand

SpecPipeline == InitPipeline /\ [][NextPipeline]_vars

(* ---------------- several requests on one event loop ---------------- *)
\* the variables of a run of a single request
request_vars ==
  <<pc, payload, relevant, request, pr_response, pr_data, pr_metadata, files_response,
    files_data, parsed_diff, step_3_payload, response>>

\* the server is up, no request has been received yet
InitServer ==
  /\ pc = "serving"
  /\ payload = Unset /\ relevant = Unset /\ request = Unset /\ pr_response = Unset
  /\ pr_data = Unset /\ pr_metadata = Unset /\ files_response = Unset
  /\ files_data = Unset /\ parsed_diff = Unset
  /\ upstream_calls = <<>> /\ step_3_payload = Unset /\ response = Unset
  /\ last_webhook_response = PyNone
  /\ handlers \in [1..NumHandlers -> NewHandlers]
  /\ arrivals = <<>>
  /\ finished = <<>>

\* handler h goes on to the state next and, when that ends it, has answered
Advance(h, next) ==
  /\ handlers' = [handlers EXCEPT ![h] = next]
  /\ finished' = IF next.pc = "done" THEN Append(finished, h) ELSE finished

\* the server receives a request and starts its coroutine, which waits for
\* the body (handle_pr_webhook) or for its first turn (analyze_pr_by_id)
Receive(h) ==
  /\ handlers[h].pc = "waiting"
  /\ handlers' = [handlers EXCEPT ![h].pc = "received"]
  /\ arrivals' = Append(arrivals, h)
  /\ UNCHANGED <<request_vars, upstream_calls, last_webhook_response, finished>>

\* handle_pr_webhook runs from the body to the await of the files listing, or
\* to its end
WebhookRun(h) ==
  /\ handlers[h].kind = "webhook"
  /\ handlers[h].pc = "received"
  /\ \E now \in Clock :
       LET r == handle_pr_webhook_until_fetch(handlers[h].input, last_webhook_response, now)
       IN /\ Advance(h, [handlers[h] EXCEPT !.pc = r.pc, !.response = r.response,
                                            !.pr_metadata = r.pr_metadata,
                                            !.writes = @ + r.writes])
          /\ last_webhook_response' = r.slot
          /\ upstream_calls' = IF r.pc = "fetching" THEN Append(upstream_calls, "GET files")
                               ELSE upstream_calls
  /\ UNCHANGED <<request_vars, arrivals>>

\* the files listing is answered and handle_pr_webhook runs to its end
WebhookFinish(h) ==
  /\ handlers[h].kind = "webhook"
  /\ handlers[h].pc = "fetching"
  /\ \E answer \in ConcurrentFilesResponses, elapsed_ms \in ElapsedMs, now \in Clock :
       LET r == handle_pr_webhook_after_fetch(handlers[h].pr_metadata, answer, elapsed_ms, now)
       IN /\ Advance(h, [handlers[h] EXCEPT !.pc = r.pc, !.response = r.response,
                                            !.writes = @ + r.writes])
          /\ last_webhook_response' = r.slot
  /\ UNCHANGED <<request_vars, upstream_calls, arrivals>>

\* analyze_pr_by_id runs to the await of the PR lookup, or refuses the call
CallRun(h) ==
  /\ handlers[h].kind = "on_demand"
  /\ handlers[h].pc = "received"
  /\ LET r == analyze_pr_by_id_until_lookup(handlers[h].input)
     IN /\ Advance(h, [handlers[h] EXCEPT !.pc = r.pc, !.response = r.response])
        /\ upstream_calls' = IF r.pc = "looking_up" THEN Append(upstream_calls, "GET pull")
                             ELSE upstream_calls
  /\ UNCHANGED <<request_vars, last_webhook_response, arrivals>>

\* the PR lookup is answered and analyze_pr_by_id runs to the await of the
\* files listing, or fails
CallLookedUp(h) ==
  /\ handlers[h].kind = "on_demand"
  /\ handlers[h].pc = "looking_up"
  /\ \E answer \in ConcurrentPrResponses :
       LET r == analyze_pr_by_id_after_lookup(handlers[h].input, answer)
       IN /\ Advance(h, [handlers[h] EXCEPT !.pc = r.pc, !.response = r.response,
                                            !.pr_metadata = r.pr_metadata])
          /\ upstream_calls' = IF r.pc = "fetching" THEN Append(upstream_calls, "GET files")
                               ELSE upstream_calls
  /\ UNCHANGED <<request_vars, last_webhook_response, arrivals>>

\* the files listing is answered and analyze_pr_by_id runs to its end
CallFinish(h) ==
  /\ handlers[h].kind = "on_demand"
  /\ handlers[h].pc = "fetching"
  /\ \E answer \in ConcurrentFilesResponses :
       LET r == analyze_pr_by_id_after_fetch(handlers[h].input, handlers[h].pr_metadata, answer)
       IN Advance(h, [handlers[h] EXCEPT !.pc = r.pc, !.response = r.response])
  /\ UNCHANGED <<request_vars, upstream_calls, last_webhook_response, arrivals>>

NextServer ==
  \E h \in 1..NumHandlers :
    \/ Receive(h)
    \/ WebhookRun(h)
    \/ WebhookFinish(h)
    \/ CallRun(h)
    \/ CallLookedUp(h)
    \/ CallFinish(h)

SpecServer == InitServer /\ [][NextServer]_vars



(* ---------------- properties ---------------- *)
\* the classifier has returned for the delivery in payload
Classified == pc \in {"classified", "ignored", "extracted"} /\ relevant # Unset
\* the delivery has a pull_request value other than None
HasPullRequest == has(payload, "pull_request") /\ payload.v["pull_request"].t # "none"
\* the action of the delivery, lower-cased and trimmed, is an allow-listed name
ActionAllowListed ==
  \E i \in DOMAIN relevant_actions :
    strip(lower(str(get(payload, "action", PyStr(<<>>))))) = relevant_actions[i]
\* parse_pr_diff has returned
Parsed == pc = "parsed"
\* the sum of field f over the records of a ParsedDiff, taken from the last
\* record backwards
RECURSIVE FieldTotal(_, _, _)
FieldTotal(files, f, n) == IF n = 0 THEN 0 ELSE FieldTotal(files, f, n - 1) + files[n][f].v

\* C1: every ParsedDiff returned by parse_pr_diff, on the normal path and on
\* the fault path, has total_additions equal to the sum of the additions of
\* its modified_files, and total_deletions equal to the sum of their deletions
C1_TotalsAreSums ==
  Parsed =>
    LET d == parsed_diff.value IN
    /\ d.total_additions = FieldTotal(d.modified_files, "additions", Len(d.modified_files))
    /\ d.total_deletions = FieldTotal(d.modified_files, "deletions", Len(d.modified_files))

\* a diff of two real records with non-zero totals has been returned
C1_Witness ==
  /\ Parsed
  /\ ~parsed_diff.fault
  /\ files_response.kind = "json"
  /\ Len(parsed_diff.value.modified_files) = 2
  /\ parsed_diff.value.total_additions = 6
  /\ parsed_diff.value.total_deletions = 2

\* get_pr_files has returned
FilesFetched == pc = "files_fetched"
\* the upstream answer is a failure or its body is not a list of objects
NotAListOfObjects ==
  \/ files_response.kind # "json"
  \/ files_response.body.t # "list"
  \/ \E i \in DOMAIN files_response.body.v : files_response.body.v[i].t # "dict"

\* C2: get_pr_files never raises, and for every upstream outcome that is a
\* network error, a timeout, a non-success status or a body that is not a
\* list of objects it returns the fixed two-record placeholder list
C2_PlaceholderOnAnyFailure ==
  FilesFetched =>
    /\ ~files_data.raised
    /\ NotAListOfObjects => files_data.value = _get_mock_files_data

\* C3 as stated: every delivery whose action is allow-listed is accepted,
\* whatever the other fields are, also without pull_request, number and
\* repository
C3_AllowListedAlwaysAccepted ==
  (Classified /\ ActionAllowListed) => relevant.result

\* C3: every delivery whose action (lower-cased, trimmed) is allow-listed and
\* that has a non-null pull_request, or both a number and a repository field,
\* is accepted
C3_AllowListedAccepted ==
  (/\ Classified
   /\ ActionAllowListed
   /\ \/ HasPullRequest
      \/ has(payload, "number") /\ has(payload, "repository"))
  => relevant.result

\* an upper-case, padded allow-listed action is accepted by the allow-list
\* scenario although the delivery has no PR number and no repository
C3_Witness ==
  /\ Classified
  /\ get(payload, "action", PyNone) = PyStr(S_Opened_padded)
  /\ HasPullRequest
  /\ ~has(payload, "number") /\ ~has(payload, "repository")
  /\ relevant.result /\ ~relevant.fault
  /\ relevant.log = "ACCEPTING: Action is relevant"

\* C4: a delivery whose pull_request is absent or null is accepted if and
\* only if it has both a number field and a repository field
C4_NoPullRequestNeedsNumberAndRepository ==
  (Classified /\ ~HasPullRequest) =>
    (relevant.result <=> (has(payload, "number") /\ has(payload, "repository")))

\* a delivery with no pull_request, a number and a repository has been accepted
\* by the alternate-shape branch
C4_Witness ==
  /\ Classified
  /\ ~has(payload, "pull_request")
  /\ has(payload, "number") /\ has(payload, "repository")
  /\ relevant.result /\ ~relevant.fault
  /\ relevant.log = "ACCEPTING: Event has PR number and repository"

\* C5: the classifier returns a boolean for every delivery and never raises,
\* and whenever a fault occurs inside it the result is accept
C5_TotalAndFailOpen ==
  Classified =>
    /\ ~relevant.raised
    /\ relevant.result \in BOOLEAN
    /\ relevant.fault => relevant.result

\* a delivery whose pull_request is not an object made the decision fail, and
\* was accepted
C5_Witness ==
  /\ Classified
  /\ HasPullRequest /\ payload.v["pull_request"].t = "str"
  /\ relevant.fault /\ relevant.result


\* a PRMetadata has been produced, on the webhook path or the on-demand path
Extracted == pc = "extracted"
OnWebhookPath == payload # Unset
OnDemandPath == request # Unset
StringFields == {"author", "title", "description", "base_branch", "head_branch", "created_at"}

\* C6: every PRMetadata produced by _extract_pr_metadata or by
\* _create_pr_metadata_from_api has author, title, description, base_branch,
\* head_branch and created_at non-null
C6_NoNullStringField ==
  Extracted => \A f \in StringFields : pr_metadata.value[f].t # "none"

\* a delivery with title, user.login and base.ref all null was extracted with
\* the defaults in their place
C6_Witness ==
  /\ Extracted /\ OnWebhookPath
  /\ LET pr == payload.v["pull_request"] IN
     /\ has(pr, "title") /\ pr.v["title"].t = "none"
     /\ has(pr, "user") /\ IsDict(pr.v["user"]) /\ has(pr.v["user"], "login")
     /\ has(pr, "base") /\ IsDict(pr.v["base"]) /\ has(pr.v["base"], "ref")
  /\ pr_metadata.value.title = PyStr(S_No_Title)
  /\ pr_metadata.value.author = PyStr(S_unknown)
  /\ pr_metadata.value.base_branch = PyStr(S_main)

\* the record the extractor reads the title from
TitleSource == IF OnWebhookPath THEN payload.v["pull_request"] ELSE pr_data
\* the source title is absent or null
TitleMissing == ~has(TitleSource, "title") \/ TitleSource.v["title"].t = "none"

\* C7: when the source title is absent or null the extracted title is the one
\* canonical default, the same for an absent and for a null title and the same
\* on both paths
C7_OneCanonicalDefaultTitle ==
  (Extracted /\ TitleMissing) => pr_metadata.value.title = PyStr(S_No_Title)

\* the optional fields of the pull_request object are absent, null or of the
\* documented shape
OptionalFieldsAbsentOrNull ==
  LET pr == payload.v["pull_request"]
      plain(k) == ~has(pr, k) \/ pr.v[k].t \in {"none", "str"}
      nested(k, k2) ==
        \/ ~has(pr, k)
        \/ pr.v[k].t = "none"
        \/ /\ IsDict(pr.v[k])
           /\ ~has(pr.v[k], k2) \/ pr.v[k].v[k2].t \in {"none", "str"}
  IN /\ plain("title") /\ plain("body") /\ plain("created_at")
     /\ nested("user", "login") /\ nested("base", "ref") /\ nested("head", "ref")

\* the delivery carries pull_request.number and repository.full_name
HasNumberAndFullName ==
  /\ has(payload, "pull_request") /\ IsDict(payload.v["pull_request"])
  /\ truthy(get(payload.v["pull_request"], "number", PyNone))
  /\ has(payload, "repository") /\ IsDict(payload.v["repository"])
  /\ truthy(get(payload.v["repository"], "full_name", PyNone))

\* _extract_pr_metadata has returned or raised
ExtractionDone == OnWebhookPath /\ pr_metadata # Unset

\* C8: for every delivery with a PR number and a repository.full_name the
\* extraction succeeds, whatever other fields or nested objects are absent or
\* null
C8_ExtractionToleratesMissingFields ==
  (ExtractionDone /\ HasNumberAndFullName /\ OptionalFieldsAbsentOrNull)
  => ~pr_metadata.raised

\* C9: every record of a ParsedDiff returned by parse_pr_diff has
\* additions >= 0, deletions >= 0, a non-null patch and a non-null file_path
C9_FileRecordInvariant ==
  Parsed =>
    \A i \in DOMAIN parsed_diff.value.modified_files :
      LET f == parsed_diff.value.modified_files[i] IN
      /\ f.additions.v >= 0 /\ f.deletions.v >= 0
      /\ f.patch.t # "none" /\ f.file_path.t # "none"

\* the one record of the ParsedDiff returned on a fault
PlaceholderFile ==
  [file_path |-> PyStr(S_error_mock), change_type |-> PyStr(S_modified),
   additions |-> PyInt(0), deletions |-> PyInt(0), patch |-> PyStr(S_error_patch)]

\* C10: parse_pr_diff never raises, and when a fault occurs inside it the
\* ParsedDiff it returns carries the input metadata, exactly one placeholder
\* file record and zero totals
C10_FaultGivesMinimalDiff ==
  Parsed =>
    /\ ~parsed_diff.raised
    /\ parsed_diff.fault =>
         /\ parsed_diff.value.pr_metadata = pr_metadata.value
         /\ parsed_diff.value.modified_files = <<PlaceholderFile>>
         /\ parsed_diff.value.total_additions = 0
         /\ parsed_diff.value.total_deletions = 0

\* a list of two records, the second with a null additions count, made the
\* mapping fail after a first record with additions had been mapped
C10_Witness ==
  /\ Parsed /\ parsed_diff.fault
  /\ files_response.kind = "json" /\ files_response.body.t = "list"
  /\ Len(files_data.value) = 2
  /\ files_data.value[1].v["additions"] = PyInt(3)
  /\ files_data.value[2].v["additions"].t = "none"
  /\ pr_metadata.value.pr_number = PyInt(42)

(* ---------------- properties of the endpoints ---------------- *)
\* the endpoint has answered
Responded == pc = "responded"

\* the state belongs to a webhook delivery / to an on-demand call
IsDelivery == payload # Unset
IsCall == request # Unset

\* the on-demand call has a positive pr_id and a repo that contains "/"
CallInputsValid ==
  /\ IsCall
  /\ request.pr_id > 0
  /\ \E i \in DOMAIN request.repo.v : request.repo.v[i] = "/"

\* the delivery was accepted and its metadata was extracted
PassedExtraction == IsDelivery /\ pr_metadata # Unset /\ ~pr_metadata.raised

\* the answer is a 200 with status "success"
SuccessResponse ==
  /\ response.status_code = 200
  /\ response.content.status = "success"

\* C11: an on-demand call with valid inputs, and a delivery that passed
\* classification and extraction, is answered with a success response whatever
\* the upstream answered (error, timeout, bad status, malformed or partly null body)
C11_UpstreamFailureNeverSurfaced ==
  (Responded /\ (CallInputsValid \/ PassedExtraction)) => SuccessResponse

\* C12: a delivery that is a JSON object, with any recognised key or nested
\* field absent or null, is answered with success or "ignored", never with 500
C12_SparseDeliveryNeverServerError ==
  (Responded /\ IsDelivery) =>
    /\ response.status_code = 200
    /\ response.content.status \in {"success", "ignored"}

\* C13: a call with pr_id <= 0 or a repo without "/" is answered 400 and sends
\* nothing upstream; a call with pr_id > 0 and a repo with "/" is never answered 4xx
C13_InvalidCallRefusedBeforeUpstream ==
  IsCall =>
    IF CallInputsValid
    THEN response # Unset => response.status_code \notin 400..499
    ELSE /\ upstream_calls = <<>>
         /\ Responded => response.status_code = 400

\* a call for PR 0 of a well-formed repo has been refused
C13_Witness ==
  /\ Responded
  /\ IsCall
  /\ request.pr_id = 0
  /\ request.repo = PyStr(S_acme_widgets)
  /\ response.status_code = 400
  /\ upstream_calls = <<>>

\* the endpoint has answered with an assembled payload
Assembled == Responded /\ step_3_payload # Unset

\* the records the payload was assembled from
SourceFiles == parsed_diff.value.modified_files

\* C14: the payload of either entry point carries pr_metadata with all nine
\* fields, modified_files entries with file_extension and is_code_file, and
\* processing_metadata with total_files, code_files and the totals
C14_SameOutboundContract ==
  Assembled =>
    /\ {"pr_number", "repository", "author", "title", "description", "base_branch",
        "head_branch", "created_at", "trigger_type"} \subseteq DOMAIN step_3_payload.pr_metadata
    /\ \A i \in DOMAIN step_3_payload.modified_files :
         {"file_extension", "is_code_file"} \subseteq DOMAIN step_3_payload.modified_files[i]
    /\ {"total_files", "code_files", "total_additions", "total_deletions"}
         \subseteq DOMAIN step_3_payload.processing_metadata

\* C15: in the on-demand payload a patch of at most 500 characters is the
\* source patch and a longer one is its first 500 characters followed by
\* "...", never more than 503 characters; in the webhook payload every patch
\* is the full source patch
C15_PatchSizeLimit ==
  Assembled =>
    /\ DOMAIN step_3_payload.modified_files = DOMAIN SourceFiles
    /\ \A i \in DOMAIN SourceFiles :
         LET source == SourceFiles[i].patch.v
             sent == step_3_payload.modified_files[i].patch.v
         IN IF IsDelivery THEN sent = source
            ELSE /\ Len(sent) <= 503
                 /\ IF Len(source) <= 500 THEN sent = source
                    ELSE /\ Len(sent) = 503
                         /\ \A j \in 1..500 : sent[j] = source[j]
                         /\ \A j \in 501..503 : sent[j] = "."

\* an on-demand payload carries a cut patch whose source has 501 characters
C15_Witness ==
  /\ Assembled
  /\ IsCall
  /\ \E i \in DOMAIN SourceFiles :
       /\ Len(SourceFiles[i].patch.v) = 501
       /\ Len(step_3_payload.modified_files[i].patch.v) = 503

\* the positions of the code files among the source records, in order
CodeFilePositions == {i \in DOMAIN SourceFiles : _is_code_file(SourceFiles[i].file_path.v)}
NthCodeFile(k) ==
  CHOOSE i \in CodeFilePositions : Cardinality({j \in CodeFilePositions : j < i}) = k - 1

\* C16: symbols_for_embedding has one entry per code file and nothing else;
\* each entry has the file_path and change_type of its file, language python
\* for extension py and javascript for js, ts, jsx, tsx
C16_OneSymbolPerCodeFile ==
  Assembled =>
    LET symbols == step_3_payload.symbols_for_embedding IN
    /\ Len(symbols) = Cardinality(CodeFilePositions)
    /\ \A k \in DOMAIN symbols :
         LET file == SourceFiles[NthCodeFile(k)]
             ext == _get_file_extension(file.file_path.v)
         IN /\ symbols[k].file_path = file.file_path
            /\ symbols[k].change_type = file.change_type
            /\ "language" \in DOMAIN symbols[k]
            /\ ext = S_py => symbols[k].language = PyStr(S_python)
            /\ in_list(ext, javascript_extensions) => symbols[k].language = PyStr(S_javascript)

\* a delivery whose files listing was the single record a.py with the
\* two-line patch has been assembled
HunkRecordAssembled ==
  /\ Assembled
  /\ IsDelivery
  /\ files_response = [kind |-> "json", body |-> PyList(<<HunkFileRecord>>)]

RejectedByClassifier ==
  /\ Responded
  /\ IsDelivery
  /\ relevant # Unset
  /\ ~relevant.result

\* C18: the reason reported to the caller of a rejected delivery is the reason
\* the classifier rejected it for: the missing-PR-data reason for {}, another
\* reason for an unrecognized action with insufficient PR data
C18_RejectionReasonSaysWhy ==
  RejectedByClassifier =>
    /\ response.content.status = "ignored"
    /\ response.content.reason = relevant.log

\* the ordered procedure of C19 on the delivery
ProcedureAction ==
  IF get(payload, "action", PyNone).t = "none" THEN <<>>
  ELSE strip(lower(str(payload.v["action"])))
ProcedurePrNumberPresent ==
  \/ truthy(get(payload.v["pull_request"], "number", PyNone))
  \/ truthy(get(payload, "number", PyNone))
ProcedureRepository ==
  IF IsDict(get(payload, "repository", PyNone))
  THEN get(payload.v["repository"], "full_name", PyStr(S_unknown))
  ELSE PyStr(S_unknown)
ProcedureAccepts ==
  \/ ProcedureAction = <<>> /\ ProcedurePrNumberPresent
  \/ in_list(ProcedureAction, relevant_actions)
  \/ ProcedurePrNumberPresent /\ ~pyeq(ProcedureRepository, PyStr(S_unknown))

\* C19: for a delivery with a non-null pull_request object, with action, the
\* two numbers, repository and full_name absent, null or set, the classifier
\* returns what the ordered procedure gives, a null action counting as empty
C19_ClassifierFollowsProcedure ==
  (/\ Classified
   /\ HasPullRequest
   /\ IsDict(payload.v["pull_request"])
   /\ get(payload, "repository", PyNone).t \in {"none", "dict"})
  => (relevant.result <=> ProcedureAccepts)

\* the lines of a patch, and the positions of those that start with "+" but
\* not "+++", or with a space
LinesOf(patch) == split(patch, "\n")
Qualifying(patch) ==
  {i \in DOMAIN LinesOf(patch) :
     LET line == LinesOf(patch)[i] IN
     /\ line # <<>>
     /\ \/ line[1] = " "
        \/ line[1] = "+" /\ ~(Len(line) >= 3 /\ line[2] = "+" /\ line[3] = "+")}
NthQualifying(patch, k) ==
  CHOOSE i \in Qualifying(patch) : Cardinality({j \in Qualifying(patch) : j < i}) = k - 1
\* the first (at most 10) qualifying lines without their first character,
\* joined by newlines
FirstQualifyingLines(patch) ==
  LET n == IF Cardinality(Qualifying(patch)) < 10 THEN Cardinality(Qualifying(patch)) ELSE 10
      line(k) == LinesOf(patch)[NthQualifying(patch, k)]
  IN join(<<"\n">>, [k \in 1..n |-> SubSeq(line(k), 2, Len(line(k)))])

\* the context sent for a python or javascript file is that of its source patch
ContextOfEverySymbolIs(expected(_)) ==
  \A k \in DOMAIN step_3_payload.symbols_for_embedding, i \in DOMAIN SourceFiles :
    step_3_payload.symbols_for_embedding[k].file_path = SourceFiles[i].file_path
      => step_3_payload.symbols_for_embedding[k].context.v = expected(SourceFiles[i].patch.v)

\* C20 as stated: for every patch the context is exactly its first (at most
\* 10) qualifying lines, prefix removed, in order, and nothing else
C20_ContextIsQualifyingLinesOnly ==
  (Assembled /\ IsDelivery) => ContextOfEverySymbolIs(FirstQualifyingLines)

\* what _extract_context_from_patch gives: the qualifying lines, or a fixed
\* text for an empty patch and for a patch whose qualifying lines join to nothing
ContextOrFallback(patch) ==
  IF patch = <<>> THEN S_No_patch
  ELSE IF FirstQualifyingLines(patch) = <<>> THEN S_Context_failed
  ELSE FirstQualifyingLines(patch)

\* C20: the context is the first (at most 10) qualifying lines of the patch,
\* prefix removed, in order, joined by newlines; an empty patch gives "No patch
\* content available", a patch with nothing to join "Context extraction failed"
C20_ContextIsQualifyingLinesOrFallback ==
  (Assembled /\ IsDelivery) => ContextOfEverySymbolIs(ContextOrFallback)

\* a python file whose patch has more than 10 qualifying lines was assembled
C20_Witness ==
  /\ Assembled
  /\ IsDelivery
  /\ Len(SourceFiles) = 1
  /\ Cardinality(Qualifying(SourceFiles[1].patch.v)) > 10
  /\ Len(step_3_payload.symbols_for_embedding) = 1
  /\ Len(split(step_3_payload.symbols_for_embedding[1].context.v, "\n")) = 10

\* the commit message of a PR, written out for the PR numbers of SampleMetadata
ChangesInPrText(n) ==
  CASE n = 7 -> <<"C", "h", "a", "n", "g", "e", "s", " ", "i", "n", " ", "P", "R", " ", "7">>
    [] n = 42 -> <<"C", "h", "a", "n", "g", "e", "s", " ", "i", "n", " ", "P", "R", " ", "4", "2">>

\* C21: on the non-fault path of parse_pr_diff, modified_files is as long as
\* the fetched list and its i-th record holds the five fields of the i-th
\* fetched record, the metadata is the input metadata, and commit_messages is
\* the one entry "Changes in PR {pr_number}"
C21_RecordsInSourceOrder ==
  (Parsed /\ ~parsed_diff.fault) =>
    LET d == parsed_diff.value
        fetched == files_data.value
    IN /\ Len(d.modified_files) = Len(fetched)
       /\ \A i \in DOMAIN fetched :
            /\ d.modified_files[i].file_path = fetched[i].v["filename"]
            /\ d.modified_files[i].change_type = fetched[i].v["status"]
            /\ d.modified_files[i].additions = fetched[i].v["additions"]
            /\ d.modified_files[i].deletions = fetched[i].v["deletions"]
            /\ d.modified_files[i].patch = fetched[i].v["patch"]
       /\ d.pr_metadata = pr_metadata.value
       /\ d.commit_messages = <<ChangesInPrText(pr_metadata.value.pr_number.v)>>

\* two different fetched records were parsed without a fault
C21_Witness ==
  /\ Parsed
  /\ ~parsed_diff.fault
  /\ Len(files_data.value) = 2
  /\ files_data.value[1] # files_data.value[2]
  /\ Len(parsed_diff.value.modified_files) = 2
  /\ parsed_diff.value.modified_files[1] # parsed_diff.value.modified_files[2]

\* the upstream gave no usable answer: a network error, a timeout, a
\* non-success status or a body that is not JSON
RequestFailed(answer) == answer.kind \in {"error", "status", "invalid_json"}

\* C22: a delivery that is rejected or whose extraction fails sends nothing
\* upstream, an accepted and extracted delivery sends exactly the files
\* listing, an on-demand call with valid inputs sends exactly the PR lookup
\* and then the files listing; a failed request is not repeated and the
\* placeholder is what the fetch returns
C22_OneAttemptInPipelineOrder ==
  /\ (Responded /\ IsDelivery /\ ~PassedExtraction) => upstream_calls = <<>>
  /\ (Responded /\ PassedExtraction) => upstream_calls = <<"GET files">>
  /\ (Responded /\ CallInputsValid) => upstream_calls = <<"GET pull", "GET files">>
  /\ (pc = "pr_fetched" /\ RequestFailed(pr_response)) =>
       /\ upstream_calls = <<"GET pull">>
       /\ pr_data = _get_mock_pr_data(request.repo, request.pr_id)
  /\ (pc = "files_fetched" /\ RequestFailed(files_response)) =>
       /\ upstream_calls \in {<<"GET files">>, <<"GET pull", "GET files">>}
       /\ files_data.value = _get_mock_files_data

(* ---------------- properties of the concurrent server ---------------- *)
\* the webhook deliveries that have answered, in the order they answered
RECURSIVE DeliveriesAmong(_)
DeliveriesAmong(hs) ==
  IF hs = <<>> THEN <<>>
  ELSE (IF handlers[hs[1]].kind = "webhook" THEN <<hs[1]>> ELSE <<>>)
       \o DeliveriesAmong(Tail(hs))
FinishedDeliveries == DeliveriesAmong(finished)

\* the slot holds the complete response of delivery h: the content of its 200
\* answer, or for a 500 answer an error record with all its fields
SlotHoldsResponseOf(h) ==
  IF handlers[h].response.status_code = 200
  THEN /\ last_webhook_response = handlers[h].response.content
       /\ last_webhook_response.status \in {"success", "ignored"}
  ELSE /\ DOMAIN last_webhook_response =
            {"status", "error", "trigger", "timestamp", "step_3_ready"}
       /\ last_webhook_response.status = "error"

NumberAndRepositoryLogs ==
  {"ACCEPTING: Event has PR number and repository",
   "ACCEPTING: Unknown action but has valid PR data",
   "ACCEPTING: Has PR number and repository"}

\* the PR number the classifier goes by: pull_request.number, or the
\* top-level number when that is missing or falsy or there is no pull_request
ClassifierPrNumber ==
  IF HasPullRequest /\ IsDict(payload.v["pull_request"])
  THEN or(get(payload.v["pull_request"], "number", PyNone), get(payload, "number", PyNone))
  ELSE get(payload, "number", PyNone)

\* the repository the classifier goes by: repository.full_name
ClassifierRepository ==
  IF has(payload, "repository") /\ IsDict(payload.v["repository"])
  THEN get(payload.v["repository"], "full_name", PyNone)
  ELSE PyNone

\* the classifier accepted the delivery for its PR number and repository, and
\* both are there
AcceptedForNumberAndRepository ==
  /\ ExtractionDone
  /\ relevant.result /\ ~relevant.fault
  /\ relevant.log \in NumberAndRepositoryLogs
  /\ truthy(ClassifierPrNumber) /\ truthy(ClassifierRepository)

\* C24: every delivery the classifier accepts because it carries a PR number
\* and a repository (the alternate shape with a top-level number and no
\* pull_request, and the number only at top level, included) yields from
\* _extract_pr_metadata a PRMetadata with that PR number and that repository,
\* not a validation error
C24_AcceptedIdentityIsExtracted ==
  AcceptedForNumberAndRepository =>
    /\ ~pr_metadata.raised
    /\ pr_metadata.value.pr_number = ClassifierPrNumber
    /\ pr_metadata.value.repository = ClassifierRepository

====
